---- MODULE Spec2Model ----
(***************************************************************************)
(* Model of the gclm batch commit tool (packages/gclm/main.ts) and of the  *)
(* shared library it is built on (shared/commit-title-generator.ts,        *)
(* shared/git-operations.ts, shared/error-handler.ts).                     *)
(*                                                                         *)
(* Strings are sequences of one-character strings, so that length,         *)
(* startsWith, endsWith, includes, substring and iteration over the        *)
(* characters of a string are computed and not assumed.                    *)
(***************************************************************************)
EXTENDS Integers, Sequences, FiniteSets, TLC

(***************************************************************************)
(* String helpers (JavaScript String methods used by the code)             *)
(***************************************************************************)
StartsWith(s, p) == Len(p) <= Len(s) /\ \A k \in 1..Len(p) : s[k] = p[k]

EndsWith(s, p) == Len(p) <= Len(s) /\ \A k \in 1..Len(p) : s[Len(s) - Len(p) + k] = p[k]

Includes(s, p) == \E i \in 0..(Len(s) - Len(p)) : \A k \in 1..Len(p) : s[i + k] = p[k]

Range(s) == {s[i] : i \in 1..Len(s)}

(***************************************************************************)
(* File classifier: shared/commit-title-generator.ts                       *)
(***************************************************************************)
IsConfigPath(path) ==
    \/ EndsWith(path, <<".","j","s","o","n">>)
    \/ Includes(path, <<"c","o","n","f","i","g">>)
    \/ EndsWith(path, <<".","t","o","m","l">>)
    \/ EndsWith(path, <<".","y","a","m","l">>)
    \/ EndsWith(path, <<".","y","m","l">>)

IsTestPath(path) ==
    \/ Includes(path, <<"t","e","s","t">>)
    \/ Includes(path, <<"s","p","e","c">>)
    \/ EndsWith(path, <<".","t","e","s","t",".","t","s">>)
    \/ EndsWith(path, <<".","s","p","e","c",".","t","s">>)

IsDocsPath(path) ==
    \/ EndsWith(path, <<".","m","d">>)
    \/ EndsWith(path, <<".","r","s","t">>)
    \/ Includes(path, <<"d","o","c","s","/">>)

IsBuildPath(path) ==
    \/ Includes(path, <<"b","u","i","l","d">>)
    \/ Includes(path, <<"d","i","s","t">>)
    \/ EndsWith(path, <<".","l","o","c","k">>)

\* Object.entries(FILE_TYPE_PATTERNS) is walked in insertion order and the
\* loop breaks at the first matcher that accepts the path.
\* The walk that tries the test matcher before the config matcher.
FILE_TYPE_PATTERNS_TestFirst(path) ==
    IF IsTestPath(path) THEN "test"
    ELSE IF IsConfigPath(path) THEN "config"
    ELSE IF IsDocsPath(path) THEN "docs"
    ELSE IF IsBuildPath(path) THEN "build"
    ELSE "other"

FILE_TYPE_PATTERNS(path) ==
    IF IsConfigPath(path) THEN "config"
    ELSE IF IsTestPath(path) THEN "test"
    ELSE IF IsDocsPath(path) THEN "docs"
    ELSE IF IsBuildPath(path) THEN "build"
    ELSE "other"

Categories == {"config", "test", "docs", "build", "other"}

categorizeFiles(fs) ==
    [c \in Categories |-> SelectSeq(fs, LAMBDA f : FILE_TYPE_PATTERNS(f.path) = c)]

(***************************************************************************)
(* JSON values, as JSON.parse returns them.  One record shape for every    *)
(* kind: t is the kind, s the characters of a string, a the elements of    *)
(* an array.                                                               *)
(***************************************************************************)
JStr(str) == [t |-> "str", s |-> str, a |-> <<>>]

JArr(elems) == [t |-> "arr", s |-> <<>>, a |-> elems]

JNum == [t |-> "num", s |-> <<>>, a |-> <<>>]

JNull == [t |-> "null", s |-> <<>>, a |-> <<>>]

\* JavaScript truthiness of a parsed value (null is the only falsy value the
\* model draws; arrays, also empty ones, and non-zero numbers are truthy).
Truthy(v) == v.t # "null" /\ ~(v.t = "str" /\ v.s = <<>>)

(***************************************************************************)
(* convertPathsToFileGroups: packages/gclm/main.ts                         *)
(***************************************************************************)
\* new Map(files.map(f => [f.path, f])).get(path): only a string key can
\* match, and of two files with one path the later one is kept.
fileMapHas(fs, e) == e.t = "str" /\ \E i \in 1..Len(fs) : fs[i].path = e.s

fileMapGet(fs, e) ==
    LET last == CHOOSE i \in 1..Len(fs) :
                    /\ fs[i].path = e.s
                    /\ \A j \in 1..Len(fs) : fs[j].path = e.s => j <= i
    IN  fs[last]

\* for (const path of pathGroup): an array yields its elements, a string its
\* characters; anything else is not iterable and the loop throws a TypeError.
IsIterable(v) == v.t \in {"arr", "str"}

IterateValue(v) ==
    IF v.t = "arr" THEN v.a
    ELSE [i \in 1..Len(v.s) |-> JStr(<<v.s[i]>>)]

\* The lookup that makes a file of every path string, staged or not.
PathGroupToFiles_KeepUnknown(pathGroup, fs) ==
    LET named == SelectSeq(IterateValue(pathGroup), LAMBDA e : e.t = "str")
    IN  [i \in 1..Len(named) |->
            IF fileMapHas(fs, named[i]) THEN fileMapGet(fs, named[i])
            ELSE [path |-> named[i].s, status |-> "M"]]

PathGroupToFiles(pathGroup, fs) ==
    LET found == SelectSeq(IterateValue(pathGroup), LAMBDA e : fileMapHas(fs, e))
    IN  [i \in 1..Len(found) |-> fileMapGet(fs, found[i])]

\* groupPaths.flat(): elements that are arrays are spliced in, every other
\* element is kept as it is.
FlatSet(groupPaths) ==
    UNION { IF groupPaths.a[i].t = "arr"
               THEN Range(groupPaths.a[i].a)
               ELSE {groupPaths.a[i]} : i \in 1..Len(groupPaths.a) }

\* TRUE when the conversion throws: groupPaths has no flat() or cannot be
\* iterated, or one of its elements cannot be iterated.
convertThrows(groupPaths) ==
    \/ groupPaths.t # "arr"
    \/ \E i \in 1..Len(groupPaths.a) : ~IsIterable(groupPaths.a[i])

\* convertPathsToFileGroups without the trailing group of unmentioned files.
convertPathsToFileGroups_NoTrailing(groupPaths, fs) ==
    LET all == [i \in 1..Len(groupPaths.a) |-> PathGroupToFiles(groupPaths.a[i], fs)]
    IN  SelectSeq(all, LAMBDA g : Len(g) > 0)

convertPathsToFileGroups(groupPaths, fs) ==
    LET all == [i \in 1..Len(groupPaths.a) |-> PathGroupToFiles(groupPaths.a[i], fs)]
        grouped == SelectSeq(all, LAMBDA g : Len(g) > 0)
        groupedPaths == FlatSet(groupPaths)
        ungroupedFiles == SelectSeq(fs, LAMBDA f : JStr(f.path) \notin groupedPaths)
    IN  IF Len(ungroupedFiles) > 0 THEN Append(grouped, ungroupedFiles) ELSE grouped

(***************************************************************************)
(* fallbackGrouping: packages/gclm/main.ts                                 *)
(***************************************************************************)
\* The order without the bucket of the files of no category.
FallbackOrder_NoOther == <<"config", "docs", "test", "build">>

FallbackOrder == <<"config", "docs", "other", "test", "build">>

\* The buckets in the order in which the classifier tries the categories.
fallbackGrouping_ClassifierOrder(fs) ==
    LET categories == categorizeFiles(fs)
        order == <<"config", "test", "docs", "build", "other">>
        buckets == [i \in 1..Len(order) |-> categories[order[i]]]
        gs == SelectSeq(buckets, LAMBDA b : Len(b) > 0)
    IN  IF Len(gs) > 0 THEN gs ELSE <<fs>>

fallbackGrouping(fs) ==
    LET categories == categorizeFiles(fs)
        buckets == [i \in 1..Len(FallbackOrder) |-> categories[FallbackOrder[i]]]
        gs == SelectSeq(buckets, LAMBDA b : Len(b) > 0)
    IN  IF Len(gs) > 0 THEN gs ELSE <<fs>>

(***************************************************************************)
(* Response fragments of the grouping query.  The text of a fragment is    *)
(* given by what the code observes of it: whether it is the empty string,  *)
(* whether JSON.parse of the bracketed match (or of the whole text)        *)
(* succeeds, and the value it returns.                                     *)
(***************************************************************************)
TextJson(v) == [empty |-> FALSE, ok |-> TRUE, val |-> v]

TextGarbage == [empty |-> FALSE, ok |-> FALSE, val |-> JNull]

TextEmpty == [empty |-> TRUE, ok |-> FALSE, val |-> JNull]

ResultMsg(text) == [type |-> "result", result |-> text, content |-> <<>>]

AssistantMsg(blocks) == [type |-> "assistant", result |-> TextEmpty, content |-> blocks]

SystemMsg == [type |-> "system", result |-> TextEmpty, content |-> <<>>]

TextBlock(text) == [type |-> "text", text |-> text]

ToolUseBlock == [type |-> "tool_use", text |-> TextEmpty]

\* The outcome of looking at one fragment inside the try block of the loop:
\* "return" with a value, "throw" (caught, continue) or "next" (fall through).
FirstTextBlock(blocks) ==
    LET idx == {i \in 1..Len(blocks) : blocks[i].type = "text" /\ ~blocks[i].text.empty}
    IN  IF idx = {} THEN 0 ELSE CHOOSE i \in idx : \A j \in idx : i <= j

ExamineFragment(message) ==
    IF message.type = "result" /\ ~message.result.empty
    THEN IF message.result.ok
            THEN [kind |-> "return", val |-> message.result.val]
            ELSE [kind |-> "throw", val |-> JNull]
    ELSE IF message.type = "assistant" /\ FirstTextBlock(message.content) # 0
    THEN LET text == message.content[FirstTextBlock(message.content)].text
         IN  IF text.ok THEN [kind |-> "return", val |-> text.val]
                        ELSE [kind |-> "throw", val |-> JNull]
    ELSE [kind |-> "next", val |-> JNull]

\* for (let i = messages.length - 1; i >= 0; i--): the result of the scan
\* that starts at fragment i; found = FALSE stands for the null result.
RECURSIVE ScanGroupPaths(_, _)
ScanGroupPaths(messages, i) ==
    IF i = 0 THEN [found |-> FALSE, val |-> JNull]
    ELSE LET r == ExamineFragment(messages[i])
         IN  IF r.kind = "return" THEN [found |-> TRUE, val |-> r.val]
             ELSE ScanGroupPaths(messages, i - 1)

\* The scan that starts at the first fragment instead of the last one.
extractGroupPathsFromMessages_FirstToLast(messages) ==
    ScanGroupPaths([i \in 1..Len(messages) |-> messages[Len(messages) + 1 - i]],
                   Len(messages))

extractGroupPathsFromMessages(messages) == ScanGroupPaths(messages, Len(messages))

(***************************************************************************)
(* groupFilesByLLM: packages/gclm/main.ts                                  *)
(* llm is the outcome of the query: threw tells that the iteration of the  *)
(* response stream threw, messages are the fragments collected.            *)
(* The result tells the groups returned, the return statement taken, the   *)
(* warnings logged and whether the promise rejected.                       *)
(***************************************************************************)
GroupingTry(fs, llm) ==
    IF llm.threw THEN [threw |-> TRUE, groups |-> <<>>]
    ELSE LET groupPaths == extractGroupPathsFromMessages(llm.messages)
         IN  IF ~groupPaths.found \/ ~Truthy(groupPaths.val)
                THEN [threw |-> TRUE, groups |-> <<>>]
             ELSE IF convertThrows(groupPaths.val)
                THEN [threw |-> TRUE, groups |-> <<>>]
             ELSE [threw |-> FALSE,
                   groups |-> convertPathsToFileGroups(groupPaths.val, fs)]

\* groupFilesByLLM whose catch block lets the error go on to the caller.
groupFilesByLLM_Rethrow(fs, llm) ==
    IF Len(fs) = 0
    THEN [groups |-> <<>>, via |-> "empty", warned |-> 0, rejected |-> FALSE]
    ELSE LET t == GroupingTry(fs, llm)
         IN  IF t.threw
                THEN [groups |-> <<>>, via |-> "none", warned |-> 0, rejected |-> TRUE]
                ELSE [groups |-> t.groups, via |-> "model",
                      warned |-> 0, rejected |-> FALSE]

groupFilesByLLM(fs, llm) ==
    IF Len(fs) = 0
    THEN [groups |-> <<>>, via |-> "empty", warned |-> 0, rejected |-> FALSE]
    ELSE LET t == GroupingTry(fs, llm)
         IN  IF t.threw
                THEN [groups |-> fallbackGrouping(fs), via |-> "fallback",
                      warned |-> 1, rejected |-> FALSE]
                ELSE [groups |-> t.groups, via |-> "model",
                      warned |-> 0, rejected |-> FALSE]


(***************************************************************************)
(* More string helpers: trim, split("\n"), toLowerCase, substring          *)
(***************************************************************************)
Whitespace == {" ", "\t", "\n", "\r"}

Trim(s) ==
    LET idx == {i \in 1..Len(s) : s[i] \notin Whitespace}
    IN  IF idx = {} THEN <<>>
        ELSE SubSeq(s, CHOOSE i \in idx : \A j \in idx : i <= j,
                       CHOOSE i \in idx : \A j \in idx : j <= i)

RECURSIVE SplitLines(_)
SplitLines(s) ==
    LET idx == {i \in 1..Len(s) : s[i] = "\n"}
    IN  IF idx = {} THEN <<s>>
        ELSE LET i == CHOOSE k \in idx : \A j \in idx : k <= j
             IN  <<SubSeq(s, 1, i - 1)>> \o SplitLines(SubSeq(s, i + 1, Len(s)))

UpperCase ==
    <<"A","B","C","D","E","F","G","H","I","J","K","L","M",
      "N","O","P","Q","R","S","T","U","V","W","X","Y","Z">>

LowerCase ==
    <<"a","b","c","d","e","f","g","h","i","j","k","l","m",
      "n","o","p","q","r","s","t","u","v","w","x","y","z">>

LowerOf == [c \in Range(UpperCase) |-> LowerCase[CHOOSE k \in 1..Len(UpperCase) : UpperCase[k] = c]]

ToLowerCase(s) ==
    [i \in 1..Len(s) |-> IF s[i] \in DOMAIN LowerOf THEN LowerOf[s[i]] ELSE s[i]]

\* s.substring(0, end): a negative end counts as 0, an end beyond the string
\* as its length.
Substring0(s, end) ==
    SubSeq(s, 1, IF end < 0 THEN 0 ELSE IF end > Len(s) THEN Len(s) ELSE end)

Ellipsis == <<".", ".", ".">>

(***************************************************************************)
(* generateFallbackTitle: shared/commit-title-generator.ts                 *)
(***************************************************************************)
\* "test: update tests"
T_test == <<"t","e","s","t",":"," ","u","p","d","a","t","e"," ","t","e","s","t","s">>

\* "docs: update documentation"
T_docs == <<"d","o","c","s",":"," ","u","p","d","a","t","e"," ","d","o","c","u","m","e","n","t","a","t","i","o","n">>

\* "config: update configuration"
T_config == <<"c","o","n","f","i","g",":"," ","u","p","d","a","t","e"," ","c","o","n","f","i","g","u","r","a","t","i","o","n">>

\* "build: update build files"
T_build == <<"b","u","i","l","d",":"," ","u","p","d","a","t","e"," ","b","u","i","l","d"," ","f","i","l","e","s">>

\* "feat: add new files"
T_feat == <<"f","e","a","t",":"," ","a","d","d"," ","n","e","w"," ","f","i","l","e","s">>

\* "chore: remove files"
T_chore == <<"c","h","o","r","e",":"," ","r","e","m","o","v","e"," ","f","i","l","e","s">>

\* "refactor: update code"
T_refactor == <<"r","e","f","a","c","t","o","r",":"," ","u","p","d","a","t","e"," ","c","o","d","e">>

\* The title that looks at the statuses before the categories.
generateFallbackTitle_StatusFirst(fs) ==
    LET categories == categorizeFiles(fs)
    IN  IF \E i \in 1..Len(fs) : fs[i].status = "A" THEN T_feat
        ELSE IF \E i \in 1..Len(fs) : fs[i].status = "D" THEN T_chore
        ELSE IF Len(categories["test"]) > 0 THEN T_test
        ELSE IF Len(categories["docs"]) > 0 THEN T_docs
        ELSE IF Len(categories["config"]) > 0 THEN T_config
        ELSE IF Len(categories["build"]) > 0 THEN T_build
        ELSE T_refactor

generateFallbackTitle(fs) ==
    LET categories == categorizeFiles(fs)
    IN  IF Len(categories["test"]) > 0 THEN T_test
        ELSE IF Len(categories["docs"]) > 0 THEN T_docs
        ELSE IF Len(categories["config"]) > 0 THEN T_config
        ELSE IF Len(categories["build"]) > 0 THEN T_build
        ELSE IF \E i \in 1..Len(fs) : fs[i].status = "A" THEN T_feat
        ELSE IF \E i \in 1..Len(fs) : fs[i].status = "D" THEN T_chore
        ELSE T_refactor

(***************************************************************************)
(* isValidCommitTitle, extractTitleFromMessages                            *)
(***************************************************************************)
conventionalPrefixes ==
    << <<"f","e","a","t",":">>,
       <<"f","i","x",":">>,
       <<"d","o","c","s",":">>,
       <<"r","e","f","a","c","t","o","r",":">>,
       <<"t","e","s","t",":">>,
       <<"c","o","n","f","i","g",":">>,
       <<"c","h","o","r","e",":">>,
       <<"s","t","y","l","e",":">>,
       <<"p","e","r","f",":">>,
       <<"b","u","i","l","d",":">>,
       <<"c","i",":">>,
       <<"r","e","v","e","r","t",":">>,
       <<"w","i","p",":">> >>

conversationalPhrases ==
    << <<"i","'","l","l">>,
       <<"l","o","o","k","i","n","g"," ","a","t">>,
       <<"b","a","s","e","d"," ","o","n">>,
       <<"h","e","r","e">>,
       <<"t","h","i","s">>,
       <<"t","h","e"," ","c","o","d","e">>,
       <<"l","e","t"," ","m","e">>,
       <<"i"," ","c","a","n"," ","s","e","e">>,
       <<"i","t"," ","a","p","p","e","a","r","s">>,
       <<"f","r","o","m"," ","t","h","e"," ","d","i","f","f">>,
       <<"a","p","p","e","a","r","s"," ","t","o">>,
       <<"w","a","i","t"," ","f","o","r"," ","y","o","u","r"," ","i","n","p","u","t">>,
       <<"w","h","a","t"," ","t","a","s","k"," ","w","o","u","l","d"," ","y","o","u">>,
       <<"h","e","l","p"," ","y","o","u"," ","w","i","t","h">> >>

\* The filter without the check for conversational phrases.
isValidCommitTitle_PrefixOnly(text) ==
    LET lower == ToLowerCase(text)
    IN  /\ Len(text) # 0
        /\ \E k \in 1..Len(conventionalPrefixes) :
              StartsWith(lower, ToLowerCase(conventionalPrefixes[k]))

isValidCommitTitle(text) ==
    LET lower == ToLowerCase(text)
    IN  /\ Len(text) # 0
        /\ \E k \in 1..Len(conventionalPrefixes) :
              StartsWith(lower, ToLowerCase(conventionalPrefixes[k]))
        /\ ~\E k \in 1..Len(conversationalPhrases) :
              Includes(lower, ToLowerCase(conversationalPhrases[k]))

\* Fragments of the title query: the text is the string itself.
TitleResultMsg(text) == [type |-> "result", result |-> text, content |-> <<>>]

TitleAssistantMsg(blocks) == [type |-> "assistant", result |-> <<>>, content |-> blocks]

TitleSystemMsg == [type |-> "system", result |-> <<>>, content |-> <<>>]

TitleTextBlock(text) == [type |-> "text", text |-> text]

TitleToolUseBlock == [type |-> "tool_use", text |-> <<>>]

NoTitle == [found |-> FALSE, title |-> <<>>]

\* for (const line of lines): the first line of the trimmed text that, once
\* trimmed itself, is a valid commit title.
FirstValidLine(text) ==
    LET lines == SplitLines(Trim(text))
        idx == {i \in 1..Len(lines) : isValidCommitTitle(Trim(lines[i]))}
    IN  IF idx = {} THEN NoTitle
        ELSE [found |-> TRUE,
              title |-> Trim(lines[CHOOSE i \in idx : \A j \in idx : i <= j])]

\* for (const content of message.message.content): the text blocks are tried
\* in order, the first one holding a valid line decides.
FirstValidBlock(blocks) ==
    LET idx == {i \in 1..Len(blocks) :
                    /\ blocks[i].type = "text"
                    /\ blocks[i].text # <<>>
                    /\ FirstValidLine(blocks[i].text).found}
    IN  IF idx = {} THEN NoTitle
        ELSE FirstValidLine(blocks[CHOOSE i \in idx : \A j \in idx : i <= j].text)

ExamineTitleFragment(message) ==
    IF message.type = "result" /\ message.result # <<>>
    THEN FirstValidLine(message.result)
    ELSE IF message.type = "assistant"
    THEN FirstValidBlock(message.content)
    ELSE NoTitle

RECURSIVE ScanTitle(_, _)
ScanTitle(messages, i) ==
    IF i = 0 THEN NoTitle
    ELSE LET r == ExamineTitleFragment(messages[i])
         IN  IF r.found THEN r ELSE ScanTitle(messages, i - 1)

\* The scan that starts at the first fragment instead of the last one.
extractTitleFromMessages_FirstToLast(messages) ==
    ScanTitle([i \in 1..Len(messages) |-> messages[Len(messages) + 1 - i]], Len(messages))

extractTitleFromMessages(messages) == ScanTitle(messages, Len(messages))

(***************************************************************************)
(* generateCommitTitle: shared/commit-title-generator.ts                   *)
(***************************************************************************)
\* DEFAULT_CONFIG.maxCommitTitleLength, and CONFIG.maxCommitTitleLength of
\* packages/gclm/main.ts.
maxCommitTitleLength == 50

\* The truncation of an accepted candidate.
TruncateTitle(title, max) ==
    IF Len(title) > max THEN Substring0(title, max - 3) \o Ellipsis ELSE title

\* max is mergedConfig.maxCommitTitleLength, llm the outcome of the query.
generateCommitTitle(fs, max, llm) ==
    LET t == IF llm.threw THEN NoTitle ELSE extractTitleFromMessages(llm.messages)
    IN  IF ~t.found
           THEN [title |-> generateFallbackTitle(fs), via |-> "fallback",
                 warned |-> 1, rejected |-> FALSE]
           ELSE [title |-> TruncateTitle(t.title, max), via |-> "model",
                 warned |-> 0, rejected |-> FALSE]

(***************************************************************************)
(* The text of a grouping fragment, character by character:                *)
(* groupsText.match(/\[[\s\S]*\]/) and JSON.parse in                       *)
(* extractGroupPathsFromMessages.  JSON.parse is modelled for arrays,      *)
(* strings without escapes, unsigned integers and null; every other text   *)
(* is a syntax error.                                                      *)
(***************************************************************************)
JsonWhitespace == {" ", "\t", "\n", "\r"}

Digits == {"0", "1", "2", "3", "4", "5", "6", "7", "8", "9"}

ParseError == [ok |-> FALSE, val |-> JNull, next |-> 0]

Parsed(v, next) == [ok |-> TRUE, val |-> v, next |-> next]

\* The first position from i on that holds no JSON whitespace (Len(s) + 1
\* when there is none).
SkipWhitespace(s, i) ==
    LET idx == {k \in i..Len(s) : s[k] \notin JsonWhitespace}
    IN  IF idx = {} THEN Len(s) + 1 ELSE CHOOSE k \in idx : \A j \in idx : k <= j

\* A string literal that opens at position i: up to the next quote.
ParseString(s, i) ==
    LET idx == {k \in (i + 1)..Len(s) : s[k] = "\""}
    IN  IF idx = {} THEN ParseError
        ELSE LET close == CHOOSE k \in idx : \A j \in idx : k <= j
             IN  IF \E k \in (i + 1)..(close - 1) : s[k] = "\\" THEN ParseError
                 ELSE Parsed(JStr(SubSeq(s, i + 1, close - 1)), close + 1)

\* An unsigned integer that starts at position i.
ParseNumber(s, i) ==
    LET idx == {k \in i..Len(s) : s[k] \notin Digits}
        stop == IF idx = {} THEN Len(s) + 1 ELSE CHOOSE k \in idx : \A j \in idx : k <= j
    IN  IF s[i] = "0" /\ stop > i + 1 THEN ParseError ELSE Parsed(JNum, stop)

RECURSIVE ParseValue(_, _)
RECURSIVE ParseElements(_, _, _)
\* The value that starts at the first non-blank position from i on.
ParseValue(s, i) ==
    LET j == SkipWhitespace(s, i)
    IN  IF j > Len(s) THEN ParseError
        ELSE IF s[j] = "[" THEN
                LET k == SkipWhitespace(s, j + 1)
                IN  IF k <= Len(s) /\ s[k] = "]" THEN Parsed(JArr(<<>>), k + 1)
                    ELSE ParseElements(s, j + 1, <<>>)
        ELSE IF s[j] = "\"" THEN ParseString(s, j)
        ELSE IF s[j] \in Digits THEN ParseNumber(s, j)
        ELSE IF j + 3 <= Len(s) /\ SubSeq(s, j, j + 3) = <<"n", "u", "l", "l">>
                THEN Parsed(JNull, j + 4)
        ELSE ParseError

\* The elements of an array from position i on, acc being those read so far:
\* a value, then a comma and more elements or the closing bracket.
ParseElements(s, i, acc) ==
    LET v == ParseValue(s, i)
    IN  IF ~v.ok THEN ParseError
        ELSE LET k == SkipWhitespace(s, v.next)
             IN  IF k > Len(s) THEN ParseError
                 ELSE IF s[k] = "," THEN ParseElements(s, k + 1, Append(acc, v.val))
                 ELSE IF s[k] = "]" THEN Parsed(JArr(Append(acc, v.val)), k + 1)
                 ELSE ParseError

\* JSON.parse(text): one value with nothing but whitespace around it.
JSONparse(s) ==
    LET v == ParseValue(s, 1)
    IN  IF v.ok /\ SkipWhitespace(s, v.next) > Len(s) THEN v ELSE ParseError

\* groupsText.match(/\[[\s\S]*\]/): from the first "[" to the last "]" of
\* the text; <<>> stands for no match.
MatchBrackets(s) ==
    LET opens == {k \in 1..Len(s) : s[k] = "["}
        first == CHOOSE k \in opens : \A j \in opens : k <= j
        closes == {k \in 1..Len(s) : s[k] = "]" /\ opens # {} /\ k > first}
    IN  IF opens = {} \/ closes = {} THEN <<>>
        ELSE SubSeq(s, first, CHOOSE k \in closes : \A j \in closes : j <= k)

\* JSON.parse of the whole trimmed text, without the bracket match.
ReadText_WholeTextOnly(chars) ==
    LET r == JSONparse(Trim(chars))
    IN  [empty |-> chars = <<>>, ok |-> r.ok, val |-> r.val]

\* What the code observes of the text of a fragment.
ReadText(chars) ==
    LET groupsText == Trim(chars)
        jsonMatch == MatchBrackets(groupsText)
        r == IF jsonMatch # <<>> THEN JSONparse(jsonMatch) ELSE JSONparse(groupsText)
    IN  [empty |-> chars = <<>>, ok |-> r.ok, val |-> r.val]

ReadBlock(block) == [type |-> block.type, text |-> ReadText(block.text)]

\* A fragment of characters as the fragment the extraction works on.
ReadMessage(message) ==
    [type |-> message.type,
     result |-> ReadText(message.result),
     content |-> [k \in 1..Len(message.content) |-> ReadBlock(message.content[k])]]

ReadMessages(messages) == [i \in 1..Len(messages) |-> ReadMessage(messages[i])]

(***************************************************************************)
(* Inputs of the grouping step                                             *)
(***************************************************************************)
MaxFiles == 2

MaxGroupLen == 2

MaxAnswerGroups == 2

P_a == <<"a",".","t","s">>

P_c == <<"c",".","j","s","o","n">>

P_x == <<"x">>

P_zz == <<"z","z">>

SeqsUpTo(S, n) == UNION {[1..k -> S] : k \in 0..n}

IsInjective(s) == \A i, j \in 1..Len(s) : s[i] = s[j] => i = j

\* Staged files have unique paths: git lists every path once.
GroupingPaths == {P_a, P_c, P_x}

GroupingFileLists ==
    {[i \in 1..Len(ps) |-> [path |-> ps[i], status |-> "M"]] :
        ps \in {s \in SeqsUpTo(GroupingPaths, MaxFiles) : Len(s) > 0 /\ IsInjective(s)}}

\* What the model may answer: arrays of path arrays over a staged path and an
\* unknown path, with strings or numbers in place of path arrays, and values
\* that are no array at all.
AnswerEntries == {JStr(P_x), JStr(P_zz)}

AnswerElements ==
    {JArr(s) : s \in SeqsUpTo(AnswerEntries, MaxGroupLen)}
        \cup {JStr(P_a), JStr(P_x), JNum, JArr(<<JNum, JStr(P_a)>>)}

Answers ==
    {JArr(s) : s \in SeqsUpTo(AnswerElements, MaxAnswerGroups)} \cup {JNum, JNull, JStr(P_a)}

LlmThrew == [threw |-> TRUE, messages |-> <<>>]

LlmSaid(messages) == [threw |-> FALSE, messages |-> messages]

\* The response streams in which an answer v can arrive.
StreamShapes(v) ==
    { LlmSaid(<<SystemMsg, AssistantMsg(<<ToolUseBlock, TextBlock(TextJson(v))>>)>>),
      LlmSaid(<<AssistantMsg(<<TextBlock(TextJson(v))>>), ResultMsg(TextGarbage)>>),
      LlmSaid(<<ResultMsg(TextJson(v)), AssistantMsg(<<ToolUseBlock>>), ResultMsg(TextEmpty)>>),
      LlmSaid(<<AssistantMsg(<<TextBlock(TextGarbage), TextBlock(TextJson(v))>>)>>),
      LlmSaid(<<ResultMsg(TextJson(JArr(<<>>))), ResultMsg(TextJson(v))>>) }

ShapedAnswers ==
    { JArr(<<>>), JNum, JNull, JStr(P_a),
      JArr(<<JStr(P_a)>>),
      JArr(<<JArr(<<JStr(P_zz)>>)>>),
      JArr(<<JArr(<<JStr(P_x)>>), JArr(<<JStr(P_a)>>)>>) }

\* Every answer arrives as the text of a single result fragment; some arrive
\* in the other stream shapes as well.
GroupingOutcomes ==
    {LlmThrew, LlmSaid(<<>>), LlmSaid(<<ResultMsg(TextGarbage), AssistantMsg(<<TextBlock(TextGarbage)>>)>>)}
        \cup {LlmSaid(<<ResultMsg(TextJson(v))>>) : v \in Answers}
        \cup UNION {StreamShapes(v) : v \in ShapedAnswers}

(***************************************************************************)
(* Inputs of the title step                                                *)
(***************************************************************************)
P_md == <<"R",".","m","d">>

P_spec == <<"t",".","s","p","e","c",".","t","s">>

P_lock == <<"b",".","l","o","c","k">>

File(path, status) == [path |-> path, status |-> status]

TitleFiles ==
    { File(P_a, "A"), File(P_a, "M"), File(P_a, "D"), File(P_c, "M"),
      File(P_md, "A"), File(P_spec, "M"), File(P_lock, "M") }

TitleFileLists ==
    {fs \in SeqsUpTo(TitleFiles, MaxFiles) :
        Len(fs) > 0 /\ IsInjective([i \in 1..Len(fs) |-> fs[i].path])}

\* Every maxCommitTitleLength a caller may configure, up to the default.
TitleLimits == 0..maxCommitTitleLength

\* "feat: add login" (15 characters)
TxtShort == <<"f","e","a","t",":"," ","a","d","d"," ","l","o","g","i","n">>

\* "fix: resolve race in file watcher debounce timer on rapid edits" (63 characters)
TxtLong == <<"f","i","x",":"," ","r","e","s","o","l","v","e"," ","r","a","c","e"," ","i","n"," ","f","i","l","e"," ","w","a","t","c","h","e","r"," ","d","e","b","o","u","n","c","e"," ","t","i","m","e","r"," ","o","n"," ","r","a","p","i","d"," ","e","d","i","t","s">>

\* "I'll analyze the diff first. feat: add login flow"
TxtChatty == <<"I","'","l","l"," ","a","n","a","l","y","z","e"," ","t","h","e"," ","d","i","f","f"," ","f","i","r","s","t","."," ","f","e","a","t",":"," ","a","d","d"," ","l","o","g","i","n"," ","f","l","o","w">>

\* "Sure, the title is:\nFeat: Add API\nchore: bump"
TxtLines == <<"S","u","r","e",","," ","t","h","e"," ","t","i","t","l","e"," ","i","s",":","\n","F","e","a","t",":"," ","A","d","d"," ","A","P","I","\n","c","h","o","r","e",":"," ","b","u","m","p">>

\* "  docs: update readme \n"
TxtPadded == <<" "," ","d","o","c","s",":"," ","u","p","d","a","t","e"," ","r","e","a","d","m","e"," ","\n">>

\* "feat: add login flow" (20 characters)
TxtTwenty == <<"f","e","a","t",":"," ","a","d","d"," ","l","o","g","i","n"," ","f","l","o","w">>

\* "feat: add login flows" (21 characters)
TxtTwentyOne == <<"f","e","a","t",":"," ","a","d","d"," ","l","o","g","i","n"," ","f","l","o","w","s">>

\* "update the parser"
TxtNoPrefix == <<"u","p","d","a","t","e"," ","t","h","e"," ","p","a","r","s","e","r">>

\* "Fix: Let me see\nfix: typo"
TxtLetMe == <<"F","i","x",":"," ","L","e","t"," ","m","e"," ","s","e","e","\n","f","i","x",":"," ","t","y","p","o">>

\* "feat: update the code"
TxtTheCode == <<"f","e","a","t",":"," ","u","p","d","a","t","e"," ","t","h","e"," ","c","o","d","e">>

TitleTexts ==
    {TxtShort, TxtLong, TxtChatty, TxtLines, TxtPadded, TxtTwenty, TxtTwentyOne, TxtNoPrefix,
     TxtLetMe, TxtTheCode}

TitleOutcomes ==
    { LlmThrew, LlmSaid(<<>>), LlmSaid(<<TitleResultMsg(<<>>)>>),
      LlmSaid(<<TitleAssistantMsg(<<TitleToolUseBlock, TitleTextBlock(TxtChatty),
                                    TitleTextBlock(TxtLong)>>)>>),
      LlmSaid(<<TitleAssistantMsg(<<TitleTextBlock(TxtShort)>>), TitleSystemMsg,
                TitleResultMsg(TxtNoPrefix)>>),
      LlmSaid(<<TitleResultMsg(TxtShort), TitleResultMsg(TxtTwentyOne)>>),
      LlmSaid(<<TitleAssistantMsg(<<TitleTextBlock(TxtPadded)>>), TitleResultMsg(TxtTheCode)>>),
      LlmSaid(<<TitleAssistantMsg(<<TitleTextBlock(TxtNoPrefix), TitleTextBlock(TxtLetMe),
                                    TitleTextBlock(TxtShort)>>)>>) }
        \cup {LlmSaid(<<TitleResultMsg(t)>>) : t \in TitleTexts}

\* The outcomes that leave the title to the fallback, whose result depends on
\* the files; the result for the other outcomes does not.
FailingTitleOutcomes == {LlmThrew, LlmSaid(<<TitleResultMsg(TxtChatty)>>)}

NoTitleOut == [title |-> <<>>, via |-> "none", warned |-> 0, rejected |-> FALSE]

NoLlm == LlmSaid(<<>>)

NoGrouping == [groups |-> <<>>, via |-> "none", warned |-> 0, rejected |-> FALSE]

\* Files of every category for the fallback grouping, two of them with a
\* path that two matchers accept.
MaxFallbackFiles == 3

\* "spec.json": config and test
P_specjson == <<"s","p","e","c",".","j","s","o","n">>

\* "dist.md": docs and build
P_distmd == <<"d","i","s","t",".","m","d">>

\* "b.md"
P_bmd == <<"b",".","m","d">>

FallbackFiles ==
    { File(P_c, "M"), File(P_md, "A"), File(P_bmd, "M"), File(P_a, "M"), File(P_x, "D"),
      File(P_spec, "M"), File(P_lock, "M"), File(P_specjson, "M"), File(P_distmd, "M") }

FallbackFileLists ==
    {fs \in SeqsUpTo(FallbackFiles, MaxFallbackFiles) : Len(fs) > 0 /\ IsInjective(fs)}

(***************************************************************************)
(* State                                                                   *)
(***************************************************************************)
\* position of the call of groupFilesByLLM: idle, start, done
VARIABLE gpc

\* its argument: the staged files
VARIABLE gFiles

\* the outcome of its query
VARIABLE gLlm

\* what the call returned
VARIABLE gOut

\* position of the call of generateCommitTitle: idle, start, done
VARIABLE tpc

\* its arguments: the files of the group and config.maxCommitTitleLength
VARIABLE tFiles

VARIABLE tMax

\* the outcome of its query
VARIABLE tLlm

\* what the call returned
VARIABLE tOut

\* position of main(): idle, start, single, grouped, done, failed
VARIABLE mpc

\* the list returned by getGitStagedFiles
VARIABLE stagedFiles

\* the groups that are committed, in order
VARIABLE groups

\* per group, the position of its reduce callback (of the single-file branch)
VARIABLE task

\* per group, the title obtained for it
VARIABLE titles

\* the staging area: the paths whose staged content differs from HEAD
VARIABLE index

\* the paths whose working-tree content differs from HEAD
VARIABLE dirty

\* the commits created, oldest first
VARIABLE commits

\* the recorder: title requests and git operations in the order they happened
VARIABLE trace

\* the warnings logged
VARIABLE warnings

\* the exit status of the process: -1 while it runs
VARIABLE exitCode

\* position of the call of extractGroupPathsFromMessages: idle, start, done
VARIABLE xpc

\* its argument: the fragments of the response, their texts as characters
VARIABLE xMessages

\* what the call returned: found = FALSE stands for null
VARIABLE xOut

\* position of the call of categorizeFiles: idle, start, done
VARIABLE cpc

\* its argument
VARIABLE cFiles

\* what the call returned: the files of every category
VARIABLE cOut

\* position of the call of getGitStagedFiles: idle, start, fetching, done,
\* failed, and grouped once main has handed the list to the grouping step
VARIABLE spc

\* what git diff --cached --name-status did: threw, or printed a text
VARIABLE sOutput

\* statusLines, each with the fields line.split("\t") gives
VARIABLE sLines

\* filePromises: one promise per status line, pending or settled
VARIABLE sResults

\* the status lines in the order in which their diff fetches completed
VARIABLE sOrder

\* the status lines whose diff fetch failed
VARIABLE sFailed

\* the list getGitStagedFiles returned
VARIABLE sOut

\* what the grouping query did, and the groups main works on
VARIABLE sLlm

VARIABLE sGroups

\* the session of ccgit: idle, watching (the wrapped process runs), exited
VARIABLE wpc

\* Date.now(), in milliseconds since the watcher was created
VARIABLE now

\* the expiry times of the timers armed by setTimeout, oldest first
VARIABLE timers

\* the fields of FileWatcherOptions
VARIABLE watcherActive

VARIABLE commitInProgress

VARIABLE lastCommitTime

VARIABLE changeBuffer

\* the calls of commitFileChanges that have not returned
VARIABLE inFlight

\* what happened, in order: change events, what each timer did, commit ends
VARIABLE wLog

\* position of the call of commitChanges: idle, start, skipped, committed,
\* failed
VARIABLE kpc

\* its arguments: the title and the SessionMetadata
VARIABLE kTitle

VARIABLE kMeta

\* whether git add -A left staged changes
VARIABLE kChanges

\* the message handed to git commit -m
VARIABLE kMessage

\* position of main's catch block: idle, start, handled, ended
VARIABLE hpc

\* the value caught, and the options handleError is called with
VARIABLE hError

VARIABLE hOptions

\* what console.error printed (the empty sequence: nothing)
VARIABLE hPrinted

\* the exit code of the process (-1 while it runs)
VARIABLE hExit

vars ==
    <<gpc, gFiles, gLlm, gOut, tpc, tFiles, tMax, tLlm, tOut,
      mpc, stagedFiles, groups, task, titles, index, dirty, commits, trace,
      warnings, exitCode, xpc, xMessages, xOut, cpc, cFiles, cOut,
      spc, sOutput, sLines, sResults, sOrder, sFailed, sOut, sLlm, sGroups,
      wpc, now, timers, watcherActive, commitInProgress, lastCommitTime, changeBuffer, inFlight, wLog,
      kpc, kTitle, kMeta, kChanges, kMessage,
      hpc, hError, hOptions, hPrinted, hExit>>

extractVars == <<xpc, xMessages, xOut>>

categorizeVars == <<cpc, cFiles, cOut>>

groupingVars == <<gpc, gFiles, gLlm, gOut>>

titleVars == <<tpc, tFiles, tMax, tLlm, tOut>>

mainVars ==
    <<mpc, stagedFiles, groups, task, titles, index, dirty, commits, trace,
      warnings, exitCode>>

GroupingIdle ==
    /\ gpc = "idle"
    /\ gFiles = <<>>
    /\ gLlm = NoLlm
    /\ gOut = NoGrouping

TitleIdle ==
    /\ tpc = "idle"
    /\ tFiles = <<>>
    /\ tMax = maxCommitTitleLength
    /\ tLlm = NoLlm
    /\ tOut = NoTitleOut

MainIdle ==
    /\ mpc = "idle"
    /\ stagedFiles = <<>>
    /\ groups = <<>>
    /\ task = <<>>
    /\ titles = <<>>
    /\ index = {}
    /\ dirty = {}
    /\ commits = <<>>
    /\ trace = <<>>
    /\ warnings = <<>>
    /\ exitCode = -1

NoGroupPaths == [found |-> FALSE, val |-> JNull]

ExtractIdle ==
    /\ xpc = "idle"
    /\ xMessages = <<>>
    /\ xOut = NoGroupPaths

NoCategories == [c \in Categories |-> <<>>]

CategorizeIdle ==
    /\ cpc = "idle"
    /\ cFiles = <<>>
    /\ cOut = NoCategories

stagedVars == <<spc, sOutput, sLines, sResults, sOrder, sFailed, sOut, sLlm, sGroups>>

StatusIdle == [threw |-> FALSE, text |-> <<>>]

StagedIdle ==
    /\ spc = "idle"
    /\ sOutput = StatusIdle
    /\ sLines = <<>>
    /\ sResults = <<>>
    /\ sOrder = <<>>
    /\ sFailed = {}
    /\ sOut = <<>>
    /\ sLlm = NoLlm
    /\ sGroups = <<>>

watchVars ==
    <<wpc, now, timers, watcherActive, commitInProgress, lastCommitTime,
      changeBuffer, inFlight, wLog>>

WatchIdle ==
    /\ wpc = "idle"
    /\ now = 0
    /\ timers = <<>>
    /\ watcherActive = FALSE
    /\ commitInProgress = FALSE
    /\ lastCommitTime = 0
    /\ changeBuffer = FALSE
    /\ inFlight = 0
    /\ wLog = <<>>

messageVars == <<kpc, kTitle, kMeta, kChanges, kMessage>>

\* An optional string field: absent (undefined) or a string.
Absent == [present |-> FALSE, val |-> <<>>]

Given(str) == [present |-> TRUE, val |-> str]

NoMetadata ==
    [sessionId |-> <<>>, prompt |-> Absent, timestamp |-> <<>>, resumedFrom |-> Absent]

MessageIdle ==
    /\ kpc = "idle"
    /\ kTitle = <<>>
    /\ kMeta = NoMetadata
    /\ kChanges = FALSE
    /\ kMessage = <<>>

handleVars == <<hpc, hError, hOptions, hPrinted, hExit>>

NoError == [kind |-> "none", message |-> <<>>, stack |-> <<>>]

\* The defaults of handleError's options (the cross mark of the prefix is
\* written X).
DefaultPrefix == <<"X", " ", "E", "r", "r", "o", "r">>

DefaultOptions ==
    [prefix |-> DefaultPrefix, verbose |-> FALSE, exitCode |-> 1, logError |-> TRUE]

HandleIdle ==
    /\ hpc = "idle"
    /\ hError = NoError
    /\ hOptions = DefaultOptions
    /\ hPrinted = <<>>
    /\ hExit = -1

(***************************************************************************)
(* SpecGrouping: groupFilesByLLM applied to every input                    *)
(***************************************************************************)
InitGrouping ==
    /\ gpc = "start"
    /\ \/ gFiles \in GroupingFileLists /\ gLlm \in GroupingOutcomes
       \/ gFiles \in FallbackFileLists /\ gLlm = LlmThrew
    /\ gOut = NoGrouping
    /\ TitleIdle
    /\ MainIdle
    /\ ExtractIdle
    /\ CategorizeIdle
    /\ StagedIdle
    /\ WatchIdle
    /\ MessageIdle
    /\ HandleIdle

CallGroupFilesByLLM ==
    /\ gpc = "start"
    /\ gOut' = groupFilesByLLM(gFiles, gLlm)
    /\ gpc' = "done"
    /\ UNCHANGED <<gFiles, gLlm>>
    /\ UNCHANGED <<titleVars, mainVars, extractVars, categorizeVars, stagedVars, watchVars, messageVars, handleVars>>

NextGrouping == CallGroupFilesByLLM

SpecGrouping == InitGrouping /\ [][NextGrouping]_vars


(***************************************************************************)
(* Properties of the grouping step                                         *)
(***************************************************************************)
\* How often the file f occurs in the groups gs, over all groups.
Occurrences(gs, f) ==
    Cardinality(UNION { {<<g, k>> : k \in {n \in 1..Len(gs[g]) : gs[g][n] = f}} :
                            g \in 1..Len(gs) })

\* The fragments whose text parses, and the value the reverse scan returns.
ParseableFragments(messages) ==
    {i \in 1..Len(messages) : ExamineFragment(messages[i]).kind = "return"}

LatestParsed(messages) ==
    LET I == ParseableFragments(messages)
    IN  ExamineFragment(messages[CHOOSE i \in I : \A j \in I : j <= i]).val

GroupingAnswered ==
    /\ gpc = "done"
    /\ ~gLlm.threw
    /\ ParseableFragments(gLlm.messages) # {}

\* C1: every staged file handed to groupFilesByLLM appears in at least one
\* of the groups it returns, whatever the model answered.
C1_NoFileDropped ==
    gpc = "done" =>
        \A i \in 1..Len(gFiles) : Occurrences(gOut.groups, gFiles[i]) >= 1

\* C2: no staged file appears more than once in the groups returned by
\* groupFilesByLLM, neither in two groups nor twice in one group.
C2_NoFileTwice ==
    gpc = "done" =>
        \A i \in 1..Len(gFiles) : Occurrences(gOut.groups, gFiles[i]) <= 1

\* C3: groupFilesByLLM never rejects; when the query threw, when no fragment
\* parsed (or the parsed value is null), or when the conversion of the parsed
\* value throws, it returns fallbackGrouping(files) and logs one warning.
GroupingFailed ==
    \/ gLlm.threw
    \/ ParseableFragments(gLlm.messages) = {}
    \/ ~Truthy(LatestParsed(gLlm.messages))
    \/ convertThrows(LatestParsed(gLlm.messages))

C3_FailureGivesFallback ==
    gpc = "done" =>
        /\ ~gOut.rejected
        /\ GroupingFailed =>
              /\ gOut.groups = fallbackGrouping(gFiles)
              /\ gOut.via = "fallback"
              /\ gOut.warned = 1

C3_Witness ==
    /\ GroupingAnswered
    /\ Len(gFiles) = 2
    /\ Truthy(LatestParsed(gLlm.messages))
    /\ convertThrows(LatestParsed(gLlm.messages))
    /\ gOut.groups = fallbackGrouping(gFiles)
    /\ Len(gOut.groups) = 2

\* The parsed answer is an array of path arrays none of which holds the path
\* of a staged file.
NamesNoStagedFile(v, fs) ==
    /\ v.t = "arr"
    /\ \A i \in 1..Len(v.a) :
          /\ v.a[i].t = "arr"
          /\ \A k \in 1..Len(v.a[i].a) : ~fileMapHas(fs, v.a[i].a[k])

\* C4 as claimed: an answer that names no staged file makes groupFilesByLLM
\* take the fallback path and return fallbackGrouping(files).
C4_EmptyLookupGivesFallback ==
    (GroupingAnswered /\ NamesNoStagedFile(LatestParsed(gLlm.messages), gFiles)) =>
        /\ gOut.via = "fallback"
        /\ gOut.groups = fallbackGrouping(gFiles)

\* C4 amended: an answer that is an array of path arrays naming no staged
\* file is not a failure; groupFilesByLLM returns, without a warning, one
\* single group holding all the staged files in their input order.
C4_EmptyLookupGivesOneGroup ==
    (GroupingAnswered /\ NamesNoStagedFile(LatestParsed(gLlm.messages), gFiles)) =>
        /\ gOut.via = "model"
        /\ gOut.warned = 0
        /\ gOut.groups = <<gFiles>>

C4_Witness ==
    /\ GroupingAnswered
    /\ LatestParsed(gLlm.messages) = JArr(<<JArr(<<JStr(P_zz)>>)>>)
    /\ Len(gFiles) = 2
    /\ gOut.groups = <<gFiles>>
    /\ gOut.groups # fallbackGrouping(gFiles)


\* C15: every group returned by groupFilesByLLM is non-empty and holds files
\* of the input list only; a path of the answer that matches no staged file
\* is in no group.
C15_GroupsOfStagedFilesOnly ==
    gpc = "done" =>
        \A g \in 1..Len(gOut.groups) :
            /\ Len(gOut.groups[g]) > 0
            /\ \A k \in 1..Len(gOut.groups[g]) :
                  \E i \in 1..Len(gFiles) : gOut.groups[g][k] = gFiles[i]

\* The answer names a staged and an unknown path in one group; the group
\* came back with the staged file alone.
C15_Witness ==
    /\ GroupingAnswered
    /\ LatestParsed(gLlm.messages) = JArr(<<JArr(<<JStr(P_x), JStr(P_zz)>>)>>)
    /\ gOut.via = "model"
    /\ gOut.groups[1] = <<File(P_x, "M")>>
    /\ Len(gFiles) = 2

\* C16: for a non-empty input, fallbackGrouping returns a partition: every
\* input file is in exactly one group, exactly once, and no group is empty.
C16_FallbackIsPartition ==
    (gpc = "done" /\ gOut.via = "fallback") =>
        /\ \A i \in 1..Len(gFiles) : Occurrences(gOut.groups, gFiles[i]) = 1
        /\ \A g \in 1..Len(gOut.groups) :
              /\ Len(gOut.groups[g]) > 0
              /\ \A k \in 1..Len(gOut.groups[g]) :
                    \E i \in 1..Len(gFiles) : gOut.groups[g][k] = gFiles[i]

\* Three files of three categories were split into three groups.
C16_Witness ==
    /\ gpc = "done"
    /\ gOut.via = "fallback"
    /\ Len(gFiles) = 3
    /\ Len(gOut.groups) = 3

\* The place of a category in the order of the groups
FallbackRank(c) ==
    CASE c = "config" -> 1
      [] c = "docs" -> 2
      [] c = "other" -> 3
      [] c = "test" -> 4
      [] c = "build" -> 5

PositionIn(fs, f) == CHOOSE i \in 1..Len(fs) : fs[i] = f

\* C17: the groups of fallbackGrouping are the non-empty category buckets in
\* the order Config, Docs, Other, Test, Build: a group holds files of one
\* category, all of them, the categories of the groups ascend in that order,
\* and inside a group the files are in the order of the input.
C17_FallbackOrder ==
    (gpc = "done" /\ gOut.via = "fallback") =>
        LET gs == gOut.groups
            cat(g) == FILE_TYPE_PATTERNS(gs[g][1].path)
        IN  /\ \A g \in 1..Len(gs) : \A k \in 1..Len(gs[g]) :
                  FILE_TYPE_PATTERNS(gs[g][k].path) = cat(g)
            /\ \A g, h \in 1..Len(gs) : g < h => FallbackRank(cat(g)) < FallbackRank(cat(h))
            /\ \A g \in 1..Len(gs) : \A k, l \in 1..Len(gs[g]) :
                  k < l => PositionIn(gFiles, gs[g][k]) < PositionIn(gFiles, gs[g][l])

\* A docs file, a test file and a second docs file, given in that order,
\* came back as the two docs files in input order and then the test file.
C17_Witness ==
    /\ gpc = "done"
    /\ gFiles = <<File(P_bmd, "M"), File(P_spec, "M"), File(P_md, "A")>>
    /\ gOut.groups = << <<File(P_bmd, "M"), File(P_md, "A")>>, <<File(P_spec, "M")>> >>

(***************************************************************************)
(* SpecExtract: extractGroupPathsFromMessages applied to responses whose   *)
(* texts are given character by character                                  *)
(***************************************************************************)
MaxFragments == 2

P_b == <<"b",".","t","s">>

\* JSON arrays of path arrays: the text and the value it denotes.
\* [["a.ts"]]
J_one == [text |-> <<"[","[","\"","a",".","t","s","\"","]","]">>,
          val |-> JArr(<<JArr(<<JStr(P_a)>>)>>)]

\* [["a.ts","b.ts"],["c.json"]]
J_example == [text |-> <<"[","[","\"","a",".","t","s","\"",",","\"","b",".","t","s","\"","]",",","[","\"","c",".","j","s","o","n","\"","]","]">>,
              val |-> JArr(<<JArr(<<JStr(P_a), JStr(P_b)>>), JArr(<<JStr(P_c)>>)>>)]

\* [ ["x"] , [] ]
J_spaced == [text |-> <<"["," ","[","\"","x","\"","]"," ",","," ","[","]"," ","]">>,
             val |-> JArr(<<JArr(<<JStr(P_x)>>), JArr(<<>>)>>)]

\* []
J_empty == [text |-> <<"[", "]">>, val |-> JArr(<<>>)]

JsonTexts == {J_one, J_example, J_spaced, J_empty}

\* "Sure, here you go: "
ProseSure == <<"S","u","r","e",","," ","h","e","r","e"," ","y","o","u"," ","g","o",":"," ">>

\* "Groups [final]: "
ProseBracketed == <<"G","r","o","u","p","s"," ","[","f","i","n","a","l","]",":"," ">>

\* " hope that helps!"
ProseHope == <<" ","h","o","p","e"," ","t","h","a","t"," ","h","e","l","p","s","!">>

\* " (see [1])"
ProseSee == <<" ","(","s","e","e"," ","[","1","]",")">>

ProseBefore == {<<>>, ProseSure, ProseBracketed, <<"\n">>}

ProseAfter == {<<>>, ProseHope, ProseSee, <<"\n", " ">>}

WrappedTexts == {b \o j.text \o a : b \in ProseBefore, j \in JsonTexts, a \in ProseAfter}

\* "I cannot group these files"
TxtCannot == <<"I"," ","c","a","n","n","o","t"," ","g","r","o","u","p"," ","t","h","e","s","e"," ","f","i","l","e","s">>

\* "null"
TxtNull == <<"n", "u", "l", "l">>

\* {"groups": [["x"]]}
TxtObject == <<"{","\"","g","r","o","u","p","s","\"",":"," ","[","[","\"","x","\"","]","]","}">>

\* The fragments the streams of several fragments are made of.
ExtractFragments ==
    { TitleResultMsg(J_one.text), TitleResultMsg(TxtCannot), TitleResultMsg(TxtNull),
      TitleResultMsg(<<>>), TitleResultMsg(TxtObject), TitleSystemMsg,
      TitleAssistantMsg(<<TitleToolUseBlock>>),
      TitleAssistantMsg(<<TitleTextBlock(TxtCannot), TitleTextBlock(J_spaced.text)>>),
      TitleAssistantMsg(<<TitleToolUseBlock, TitleTextBlock(<<>>),
                          TitleTextBlock(J_empty.text), TitleTextBlock(J_one.text)>>),
      TitleResultMsg(ProseSure \o J_example.text \o ProseHope) }

ExtractStreams ==
    SeqsUpTo(ExtractFragments, MaxFragments)
        \cup {<<TitleResultMsg(t)>> : t \in WrappedTexts}
        \cup {<<TitleAssistantMsg(<<TitleTextBlock(t)>>)>> : t \in WrappedTexts}

InitExtract ==
    /\ xpc = "start"
    /\ xMessages \in ExtractStreams
    /\ xOut = NoGroupPaths
    /\ GroupingIdle
    /\ TitleIdle
    /\ MainIdle
    /\ CategorizeIdle
    /\ StagedIdle
    /\ WatchIdle
    /\ MessageIdle
    /\ HandleIdle

CallExtractGroupPaths ==
    /\ xpc = "start"
    /\ xOut' = extractGroupPathsFromMessages(ReadMessages(xMessages))
    /\ xpc' = "done"
    /\ UNCHANGED xMessages
    /\ UNCHANGED <<groupingVars, titleVars, mainVars, categorizeVars, stagedVars, watchVars, messageVars, handleVars>>

NextExtract == CallExtractGroupPaths

SpecExtract == InitExtract /\ [][NextExtract]_vars

(***************************************************************************)
(* Properties of the extraction                                            *)
(***************************************************************************)
\* The text of a fragment, as a sequence of at most one text: the result of
\* a result fragment, the first non-empty text block of an assistant one.
FragmentText(message) ==
    IF message.type = "result" /\ message.result # <<>> THEN <<message.result>>
    ELSE IF message.type = "assistant"
    THEN LET idx == {k \in 1..Len(message.content) :
                        message.content[k].type = "text" /\ message.content[k].text # <<>>}
         IN  IF idx = {} THEN <<>>
             ELSE <<message.content[CHOOSE k \in idx : \A j \in idx : k <= j].text>>
    ELSE <<>>

FragmentParses(message) ==
    FragmentText(message) # <<>> /\ ReadText(FragmentText(message)[1]).ok

\* C13: the extraction returns the parsed value of the latest fragment whose
\* text parses, fragments whose parsing throws or that carry no text being
\* passed over; when no fragment parses it returns null, and groupFilesByLLM
\* takes a null (also a parsed one) for a failure of the model.
C13_LatestParseableFragment ==
    xpc = "done" =>
        LET P == {i \in 1..Len(xMessages) : FragmentParses(xMessages[i])}
            latest == CHOOSE i \in P : \A j \in P : j <= i
        IN  /\ IF P = {} THEN ~xOut.found
               ELSE /\ xOut.found
                    /\ xOut.val = ReadText(FragmentText(xMessages[latest])[1]).val
            /\ (~xOut.found \/ xOut.val = JNull) =>
                  GroupingTry(<<File(P_a, "M")>>, LlmSaid(ReadMessages(xMessages))).threw

\* The last fragment does not parse and the one before it does: the value of
\* the earlier fragment is returned.
C13_Witness ==
    /\ xpc = "done"
    /\ xMessages = <<TitleResultMsg(J_one.text),
                     TitleAssistantMsg(<<TitleTextBlock(TxtCannot),
                                         TitleTextBlock(J_spaced.text)>>)>>
    /\ xOut = [found |-> TRUE, val |-> J_one.val]

\* The one fragment of the response holds the JSON text j between the prose
\* before and the prose after.
IsWrapped(before, j, after) ==
    /\ xpc = "done"
    /\ \/ xMessages = <<TitleResultMsg(before \o j.text \o after)>>
       \/ xMessages = <<TitleAssistantMsg(<<TitleTextBlock(before \o j.text \o after)>>)>>

HasChar(str, c) == \E k \in 1..Len(str) : str[k] = c

MaxCategorized == 2

\* "test.md": test and docs
P_testmd == <<"t","e","s","t",".","m","d">>

\* "config.lock": config and build
P_configlock == <<"c","o","n","f","i","g",".","l","o","c","k">>

\* "docs/build": docs and build
P_docsbuild == <<"d","o","c","s","/","b","u","i","l","d">>

\* "latest.yml": config and test
P_latestyml == <<"l","a","t","e","s","t",".","y","m","l">>

CategorizePaths ==
    { P_a, P_x, P_c, P_md, P_spec, P_lock, P_specjson, P_distmd, P_testmd, P_configlock,
      P_docsbuild, P_latestyml }

CategorizeFileLists ==
    {[i \in 1..Len(ps) |-> File(ps[i], "M")] :
        ps \in {q \in SeqsUpTo(CategorizePaths, MaxCategorized) : IsInjective(q)}}

InitCategorize ==
    /\ cpc = "start"
    /\ cFiles \in CategorizeFileLists
    /\ cOut = NoCategories
    /\ GroupingIdle
    /\ TitleIdle
    /\ MainIdle
    /\ ExtractIdle
    /\ StagedIdle
    /\ WatchIdle
    /\ MessageIdle
    /\ HandleIdle

CallCategorizeFiles ==
    /\ cpc = "start"
    /\ cOut' = categorizeFiles(cFiles)
    /\ cpc' = "done"
    /\ UNCHANGED cFiles
    /\ UNCHANGED <<groupingVars, titleVars, mainVars, extractVars, stagedVars, watchVars, messageVars, handleVars>>

NextCategorize == CallCategorizeFiles

SpecCategorize == InitCategorize /\ [][NextCategorize]_vars

(***************************************************************************)
(* Properties of the classifier                                            *)
(***************************************************************************)
MatcherOrder == <<"config", "test", "docs", "build">>

Matches(c, path) ==
    CASE c = "config" -> IsConfigPath(path)
      [] c = "test" -> IsTestPath(path)
      [] c = "docs" -> IsDocsPath(path)
      [] c = "build" -> IsBuildPath(path)

\* c is the category of the earliest matcher that accepts the path, or
\* "other" when none does.
IsFirstMatch(c, path) ==
    IF c = "other" THEN \A k \in 1..Len(MatcherOrder) : ~Matches(MatcherOrder[k], path)
    ELSE \E k \in 1..Len(MatcherOrder) :
            /\ MatcherOrder[k] = c
            /\ Matches(c, path)
            /\ \A j \in 1..(k - 1) : ~Matches(MatcherOrder[j], path)

TimesIn(bucket, f) == Cardinality({k \in 1..Len(bucket) : bucket[k] = f})

\* C18: categorizeFiles puts every file in exactly one category, once: the
\* one of the earliest matcher, in the order Config, Test, Docs, Build, that
\* accepts its path, and Other when none does.
C18_FirstMatchWins ==
    cpc = "done" =>
        /\ \A i \in 1..Len(cFiles) : \A c \in Categories :
              TimesIn(cOut[c], cFiles[i]) = IF IsFirstMatch(c, cFiles[i].path) THEN 1 ELSE 0
        /\ \A c \in Categories : \A k \in 1..Len(cOut[c]) :
              \E i \in 1..Len(cFiles) : cOut[c][k] = cFiles[i]

\* A path that the config and the test matcher accept and one that the docs
\* and the build matcher accept are classified as config and as docs only.
C18_Witness ==
    /\ cpc = "done"
    /\ cFiles = <<File(P_distmd, "M"), File(P_specjson, "M")>>
    /\ IsTestPath(P_specjson) /\ IsConfigPath(P_specjson)
    /\ IsBuildPath(P_distmd) /\ IsDocsPath(P_distmd)
    /\ cOut["config"] = <<File(P_specjson, "M")>>
    /\ cOut["docs"] = <<File(P_distmd, "M")>>
    /\ cOut["test"] = <<>> /\ cOut["build"] = <<>> /\ cOut["other"] = <<>>

(***************************************************************************)
(* SpecTitle: generateCommitTitle applied to every input                   *)
(***************************************************************************)
\* The files of the fallback title: every category, the three statuses, and
\* the empty list.
FallbackTitleFileLists ==
    {fs \in SeqsUpTo(FallbackFiles \cup {File(P_b, "A")}, MaxFallbackFiles) :
        IsInjective(fs)}

InitTitle ==
    /\ tpc = "start"
    /\ \/ /\ tMax \in TitleLimits
          /\ \/ tFiles \in TitleFileLists /\ tLlm \in FailingTitleOutcomes
             \/ tFiles \in {<<f>> : f \in TitleFiles} /\ tLlm \in TitleOutcomes
       \/ /\ tMax = maxCommitTitleLength
          /\ tFiles \in FallbackTitleFileLists
          /\ tLlm = LlmThrew
    /\ tOut = NoTitleOut
    /\ GroupingIdle
    /\ MainIdle
    /\ ExtractIdle
    /\ CategorizeIdle
    /\ StagedIdle
    /\ WatchIdle
    /\ MessageIdle
    /\ HandleIdle

CallGenerateCommitTitle ==
    /\ tpc = "start"
    /\ tOut' = generateCommitTitle(tFiles, tMax, tLlm)
    /\ tpc' = "done"
    /\ UNCHANGED <<tFiles, tMax, tLlm>>
    /\ UNCHANGED <<groupingVars, mainVars, extractVars, categorizeVars, stagedVars, watchVars, messageVars, handleVars>>

NextTitle == CallGenerateCommitTitle

SpecTitle == InitTitle /\ [][NextTitle]_vars

(***************************************************************************)
(* Properties of the title step                                            *)
(***************************************************************************)
\* The candidate line the extraction accepted, if the query gave one.
Accepted == IF tLlm.threw THEN NoTitle ELSE extractTitleFromMessages(tLlm.messages)

\* C9: the title returned by generateCommitTitle is never longer than the
\* configured maxCommitTitleLength, for a model title and for the fallback.
C9_TitleWithinLimit ==
    tpc = "done" => Len(tOut.title) <= tMax

\* C10: a candidate longer than max comes back as its first
\* max - 3 characters followed by "...", of length exactly max; a candidate
\* of length at most max comes back unchanged.
C10_TruncatedToLimit ==
    tpc = "done" =>
        LET c == Accepted
        IN  c.found =>
              IF Len(c.title) > tMax
                 THEN /\ tOut.title = SubSeq(c.title, 1, tMax - 3) \o Ellipsis
                      /\ EndsWith(tOut.title, Ellipsis)
                      /\ Len(tOut.title) = tMax
                 ELSE tOut.title = c.title

\* The lines the extraction looks at in one text: the lines of the trimmed
\* text, each trimmed.
LinesOfText(text) ==
    LET lines == SplitLines(Trim(text))
    IN  [i \in 1..Len(lines) |-> Trim(lines[i])]

RECURSIVE LinesOfBlocks(_)
LinesOfBlocks(blocks) ==
    IF blocks = <<>> THEN <<>>
    ELSE (IF Head(blocks).type = "text" /\ Head(blocks).text # <<>>
             THEN LinesOfText(Head(blocks).text) ELSE <<>>)
         \o LinesOfBlocks(Tail(blocks))

LinesOfFragment(message) ==
    IF message.type = "result" /\ message.result # <<>> THEN LinesOfText(message.result)
    ELSE IF message.type = "assistant" THEN LinesOfBlocks(message.content)
    ELSE <<>>

\* All candidate lines of a response: the fragments from the last to the
\* first, the lines of a fragment from top to bottom.
RECURSIVE CandidateLines(_)
CandidateLines(messages) ==
    IF messages = <<>> THEN <<>>
    ELSE LinesOfFragment(messages[Len(messages)])
         \o CandidateLines(SubSeq(messages, 1, Len(messages) - 1))

HasWhitelistedPrefix(line) ==
    \E k \in 1..Len(conventionalPrefixes) :
        StartsWith(ToLowerCase(line), conventionalPrefixes[k])

HasConversationalPhrase(line) ==
    \E k \in 1..Len(conversationalPhrases) :
        Includes(ToLowerCase(line), conversationalPhrases[k])

Acceptable(line) == HasWhitelistedPrefix(line) /\ ~HasConversationalPhrase(line)

\* C11: the extraction never accepts a line without a whitelisted prefix
\* (compared case-insensitively) or with a conversational phrase in it: the
\* accepted line is a candidate line that has a prefix and no phrase, a title
\* from the model is that line (truncated), and when no candidate line
\* qualifies the fallback title is returned.
C11_OnlyValidLinesAccepted ==
    tpc = "done" =>
        LET c == Accepted
            lines == IF tLlm.threw THEN <<>> ELSE CandidateLines(tLlm.messages)
        IN  /\ c.found =>
                  /\ \E k \in 1..Len(lines) : lines[k] = c.title
                  /\ HasWhitelistedPrefix(c.title)
                  /\ ~HasConversationalPhrase(c.title)
            /\ tOut.via = "model" => c.found /\ tOut.title = TruncateTitle(c.title, tMax)
            /\ (\A k \in 1..Len(lines) : ~Acceptable(lines[k])) =>
                  /\ tOut.via = "fallback"
                  /\ tOut.title = generateFallbackTitle(tFiles)

\* A line with a prefix and a conversational phrase was passed over for the
\* line after it; and a response of unacceptable lines only gave the fallback.
C11_Witness ==
    /\ tpc = "done"
    /\ tLlm = LlmSaid(<<TitleResultMsg(TxtLetMe)>>)
    /\ tMax = maxCommitTitleLength
    /\ tOut.via = "model"
    /\ tOut.title = <<"f","i","x",":"," ","t","y","p","o">>

\* C12: the title is the first acceptable line in the order fragments last to
\* first, lines top to bottom (truncated to the limit); when there is none or
\* the query throws the result is generateFallbackTitle(files); the call
\* never rejects.
C12_FirstValidLineInScanOrder ==
    tpc = "done" =>
        LET lines == IF tLlm.threw THEN <<>> ELSE CandidateLines(tLlm.messages)
            idx == {k \in 1..Len(lines) : Acceptable(lines[k])}
        IN  /\ ~tOut.rejected
            /\ IF idx = {}
                  THEN tOut.title = generateFallbackTitle(tFiles) /\ tOut.via = "fallback"
                  ELSE /\ tOut.via = "model"
                       /\ tOut.title =
                             TruncateTitle(lines[CHOOSE k \in idx : \A j \in idx : k <= j], tMax)

\* Two fragments hold an acceptable line each and the line of the later
\* fragment became the title.
C12_Witness ==
    /\ tpc = "done"
    /\ tLlm = LlmSaid(<<TitleResultMsg(TxtShort), TitleResultMsg(TxtTwentyOne)>>)
    /\ tMax = maxCommitTitleLength
    /\ tOut.title = TxtTwentyOne

CategoryPresent(c, fs) == \E i \in 1..Len(fs) : IsFirstMatch(c, fs[i].path)

HasStatus(st, fs) == \E i \in 1..Len(fs) : fs[i].status = st

\* C19: the fallback title is the canned title of the first category present
\* in the order Test, Docs, Config, Build; only when none is present the
\* statuses decide (Added, then Deleted, else the refactor title); it is a
\* non-empty string for every list of files, the empty one included.
C19_CategoryBeforeStatus ==
    (tpc = "done" /\ tOut.via = "fallback") =>
        /\ Len(tOut.title) > 0
        /\ tOut.title =
              IF CategoryPresent("test", tFiles) THEN T_test
              ELSE IF CategoryPresent("docs", tFiles) THEN T_docs
              ELSE IF CategoryPresent("config", tFiles) THEN T_config
              ELSE IF CategoryPresent("build", tFiles) THEN T_build
              ELSE IF HasStatus("A", tFiles) THEN T_feat
              ELSE IF HasStatus("D", tFiles) THEN T_chore
              ELSE T_refactor

\* An added docs file next to an added plain file gave the docs title.
C19_Witness ==
    /\ tpc = "done"
    /\ tOut.via = "fallback"
    /\ tFiles = <<File(P_b, "A"), File(P_md, "A")>>
    /\ tOut.title = T_docs

(***************************************************************************)
(* main of packages/gclm/main.ts with createCommit of                      *)
(* shared/git-operations.ts: the commit orchestrator                       *)
(***************************************************************************)
PathsOf(fs) == {fs[k].path : k \in 1..Len(fs)}

PipelineFiles == {File(P_a, "M"), File(P_c, "M"), File(P_x, "A")}

PipelineFileLists ==
    {fs \in SeqsUpTo(PipelineFiles, MaxFiles) : IsInjective([i \in 1..Len(fs) |-> fs[i].path])}

\* Answers of the grouping query: no answer, no group, two groups, a path
\* named in two groups, a flat array of paths.
PipelineAnswers ==
    { JArr(<<>>),
      JArr(<<JArr(<<JStr(P_x)>>), JArr(<<JStr(P_a)>>)>>),
      JArr(<<JArr(<<JStr(P_x)>>), JArr(<<JStr(P_a)>>), JArr(<<JStr(P_x)>>)>>),
      JArr(<<JStr(P_a), JStr(P_c)>>) }

PipelineGroupingOutcomes ==
    {LlmThrew} \cup {LlmSaid(<<ResultMsg(TextJson(v))>>) : v \in PipelineAnswers}

PipelineTitleOutcomes == {LlmThrew, LlmSaid(<<TitleResultMsg(TxtShort)>>)}

Event(op, group, res) == [op |-> op, group |-> group, res |-> res]

Warning(kind, group) == [kind |-> kind, group |-> group]

\* processCommitGroup asks for the title and then calls createCommit, which
\* follows the title request by reset, add, check and commit.
NextStep_TitleAfterCheck(step) ==
    CASE step = "awaitPrev" -> "reset"
      [] step = "reset" -> "add"
      [] step = "add" -> "check"
      [] step = "check" -> "title"
      [] step = "title" -> "commit"
      [] step = "commit" -> "resolved"

NextStep(step) ==
    CASE step = "awaitPrev" -> "title"
      [] step = "title" -> "reset"
      [] step = "reset" -> "add"
      [] step = "add" -> "check"
      [] step = "check" -> "commit"
      [] step = "commit" -> "resolved"

InitMain ==
    /\ mpc = "start"
    /\ stagedFiles \in PipelineFileLists
    /\ groups = <<>>
    /\ task = <<>>
    /\ titles = <<>>
    /\ index = PathsOf(stagedFiles)
    /\ dirty \in SUBSET PathsOf(stagedFiles)
    /\ commits = <<>>
    /\ trace = <<>>
    /\ warnings = <<>>
    /\ exitCode = -1
    /\ GroupingIdle
    /\ TitleIdle
    /\ ExtractIdle
    /\ CategorizeIdle
    /\ StagedIdle
    /\ WatchIdle
    /\ MessageIdle
    /\ HandleIdle

Running == mpc \in {"single", "grouped"}

\* if (stagedFiles.length === 0) { ...; return; }
\* main without the early return: the empty list goes on to groupFilesByLLM
\* and to the reduce over its groups.
MainNoStagedFiles_GoesOn ==
    /\ mpc = "start"
    /\ Len(stagedFiles) = 0
    /\ mpc' = "grouped"
    /\ UNCHANGED <<groupingVars, titleVars, extractVars, categorizeVars, stagedVars, watchVars, messageVars, handleVars>>
    /\ UNCHANGED <<stagedFiles, groups, task, titles, index, dirty, commits, trace,
                   warnings, exitCode>>

MainNoStagedFiles ==
    /\ mpc = "start"
    /\ Len(stagedFiles) = 0
    /\ trace' = Append(trace, Event("log", 0, "noStagedFiles"))
    /\ mpc' = "done"
    /\ exitCode' = 0
    /\ UNCHANGED <<groupingVars, titleVars, extractVars, categorizeVars, stagedVars, watchVars, messageVars, handleVars>>
    /\ UNCHANGED <<stagedFiles, groups, task, titles, index, dirty, commits, warnings>>

\* if (stagedFiles.length === 1): the title and the commit of the one file
MainSingleFile ==
    /\ mpc = "start"
    /\ Len(stagedFiles) = 1
    /\ mpc' = "single"
    /\ groups' = <<stagedFiles>>
    /\ task' = <<"title">>
    /\ titles' = << <<>> >>
    /\ UNCHANGED <<groupingVars, titleVars, extractVars, categorizeVars, stagedVars, watchVars, messageVars, handleVars>>
    /\ UNCHANGED <<stagedFiles, index, dirty, commits, trace, warnings, exitCode>>

\* groups = await groupFilesByLLM(stagedFiles); groups.reduce(...) starts one
\* callback per group, each of which first awaits its predecessor.  The
\* query of the model is recorded unless groupFilesByLLM returned before it.
MainGroupFiles ==
    /\ mpc = "start"
    /\ Len(stagedFiles) >= 2
    /\ \E llm \in PipelineGroupingOutcomes :
          LET r == groupFilesByLLM(stagedFiles, llm)
          IN  /\ groups' = r.groups
              /\ task' = [i \in 1..Len(r.groups) |-> "awaitPrev"]
              /\ titles' = [i \in 1..Len(r.groups) |-> <<>>]
              /\ warnings' = IF r.warned = 1
                                THEN Append(warnings, Warning("grouping", 0))
                                ELSE warnings
              /\ trace' = IF r.via = "empty"
                             THEN trace
                             ELSE Append(trace, Event("query", 0, r.via))
    /\ mpc' = "grouped"
    /\ UNCHANGED <<groupingVars, titleVars, extractVars, categorizeVars, stagedVars, watchVars, messageVars, handleVars>>
    /\ UNCHANGED <<stagedFiles, index, dirty, commits, exitCode>>

\* await prev, when the callback of the group before has resolved
AwaitPrev_NoWait(i) ==
    /\ mpc = "grouped"
    /\ task[i] = "awaitPrev"
    /\ task' = [task EXCEPT ![i] = NextStep("awaitPrev")]
    /\ UNCHANGED <<groupingVars, titleVars, extractVars, categorizeVars, stagedVars, watchVars, messageVars, handleVars>>
    /\ UNCHANGED <<mpc, stagedFiles, groups, titles, index, dirty, commits, trace,
                   warnings, exitCode>>

AwaitPrev(i) ==
    /\ mpc = "grouped"
    /\ task[i] = "awaitPrev"
    /\ IF i = 1 THEN TRUE ELSE task[i - 1] = "resolved"
    /\ task' = [task EXCEPT ![i] = NextStep("awaitPrev")]
    /\ UNCHANGED <<groupingVars, titleVars, extractVars, categorizeVars, stagedVars, watchVars, messageVars, handleVars>>
    /\ UNCHANGED <<mpc, stagedFiles, groups, titles, index, dirty, commits, trace,
                   warnings, exitCode>>

\* await prev, when the callback of the group before has rejected
AwaitPrevRejected_GoesOn(i) ==
    /\ mpc = "grouped"
    /\ task[i] = "awaitPrev"
    /\ IF i > 1 THEN task[i - 1] = "rejected" ELSE FALSE
    /\ task' = [task EXCEPT ![i] = NextStep("awaitPrev")]
    /\ UNCHANGED <<groupingVars, titleVars, extractVars, categorizeVars, stagedVars, watchVars, messageVars, handleVars>>
    /\ UNCHANGED <<mpc, stagedFiles, groups, titles, index, dirty, commits, trace,
                   warnings, exitCode>>

AwaitPrevRejected(i) ==
    /\ mpc = "grouped"
    /\ task[i] = "awaitPrev"
    /\ IF i > 1 THEN task[i - 1] = "rejected" ELSE FALSE
    /\ task' = [task EXCEPT ![i] = "rejected"]
    /\ UNCHANGED <<groupingVars, titleVars, extractVars, categorizeVars, stagedVars, watchVars, messageVars, handleVars>>
    /\ UNCHANGED <<mpc, stagedFiles, groups, titles, index, dirty, commits, trace,
                   warnings, exitCode>>

\* title = await generateCommitTitle(group, {maxCommitTitleLength: 50, ...})
GenerateTitle(i) ==
    /\ Running
    /\ task[i] = "title"
    /\ \E llm \in PipelineTitleOutcomes :
          LET r == generateCommitTitle(groups[i], maxCommitTitleLength, llm)
          IN  /\ titles' = [titles EXCEPT ![i] = r.title]
              /\ warnings' = IF r.warned = 1
                                THEN Append(warnings, Warning("title", i))
                                ELSE warnings
    /\ trace' = Append(trace, Event("title", i, "ok"))
    /\ task' = [task EXCEPT ![i] = NextStep("title")]
    /\ UNCHANGED <<groupingVars, titleVars, extractVars, categorizeVars, stagedVars, watchVars, messageVars, handleVars>>
    /\ UNCHANGED <<mpc, stagedFiles, groups, index, dirty, commits, exitCode>>

\* a reset that leaves the staging area as it is
GitReset_KeepsIndex(i) ==
    /\ Running
    /\ task[i] = "reset"
    /\ trace' = Append(trace, Event("reset", i, "ok"))
    /\ task' = [task EXCEPT ![i] = NextStep("reset")]
    /\ UNCHANGED <<groupingVars, titleVars, extractVars, categorizeVars, stagedVars, watchVars, messageVars, handleVars>>
    /\ UNCHANGED <<mpc, stagedFiles, groups, titles, index, dirty, commits, warnings, exitCode>>

\* await executeGitCommand(["reset"])
GitReset(i) ==
    /\ Running
    /\ task[i] = "reset"
    /\ index' = {}
    /\ trace' = Append(trace, Event("reset", i, "ok"))
    /\ task' = [task EXCEPT ![i] = NextStep("reset")]
    /\ UNCHANGED <<groupingVars, titleVars, extractVars, categorizeVars, stagedVars, watchVars, messageVars, handleVars>>
    /\ UNCHANGED <<mpc, stagedFiles, groups, titles, dirty, commits, warnings, exitCode>>

GitResetFails(i) ==
    /\ Running
    /\ task[i] = "reset"
    /\ trace' = Append(trace, Event("reset", i, "fail"))
    /\ task' = [task EXCEPT ![i] = "rejected"]
    /\ UNCHANGED <<groupingVars, titleVars, extractVars, categorizeVars, stagedVars, watchVars, messageVars, handleVars>>
    /\ UNCHANGED <<mpc, stagedFiles, groups, titles, index, dirty, commits, warnings,
                   exitCode>>

\* await executeGitCommand(["add", ...filePaths]): the paths whose content
\* differs from HEAD become staged changes.
GitAdd(i) ==
    /\ Running
    /\ task[i] = "add"
    /\ index' = index \cup (PathsOf(groups[i]) \cap dirty)
    /\ trace' = Append(trace, Event("add", i, "ok"))
    /\ task' = [task EXCEPT ![i] = NextStep("add")]
    /\ UNCHANGED <<groupingVars, titleVars, extractVars, categorizeVars, stagedVars, watchVars, messageVars, handleVars>>
    /\ UNCHANGED <<mpc, stagedFiles, groups, titles, dirty, commits, warnings, exitCode>>

GitAddFails(i) ==
    /\ Running
    /\ task[i] = "add"
    /\ trace' = Append(trace, Event("add", i, "fail"))
    /\ task' = [task EXCEPT ![i] = "rejected"]
    /\ UNCHANGED <<groupingVars, titleVars, extractVars, categorizeVars, stagedVars, watchVars, messageVars, handleVars>>
    /\ UNCHANGED <<mpc, stagedFiles, groups, titles, index, dirty, commits, warnings,
                   exitCode>>

\* hasChangesToCommit: git diff --cached --quiet exits with 1, the call throws
\* and the function returns true.
CheckHasChanges(i) ==
    /\ Running
    /\ task[i] = "check"
    /\ index # {}
    /\ trace' = Append(trace, Event("check", i, "changes"))
    /\ task' = [task EXCEPT ![i] = NextStep("check")]
    /\ UNCHANGED <<groupingVars, titleVars, extractVars, categorizeVars, stagedVars, watchVars, messageVars, handleVars>>
    /\ UNCHANGED <<mpc, stagedFiles, groups, titles, index, dirty, commits, warnings,
                   exitCode>>

\* hasChangesToCommit returns false: warn and return, the group is skipped.
CheckNoChanges_Throws(i) ==
    /\ Running
    /\ task[i] = "check"
    /\ index = {}
    /\ trace' = Append(trace, Event("check", i, "empty"))
    /\ task' = [task EXCEPT ![i] = "rejected"]
    /\ UNCHANGED <<groupingVars, titleVars, extractVars, categorizeVars, stagedVars, watchVars, messageVars, handleVars>>
    /\ UNCHANGED <<mpc, stagedFiles, groups, titles, index, dirty, commits, warnings,
                   exitCode>>

CheckNoChanges(i) ==
    /\ Running
    /\ task[i] = "check"
    /\ index = {}
    /\ trace' = Append(trace, Event("check", i, "empty"))
    /\ warnings' = Append(warnings, Warning("nochanges", i))
    /\ task' = [task EXCEPT ![i] = "resolved"]
    /\ UNCHANGED <<groupingVars, titleVars, extractVars, categorizeVars, stagedVars, watchVars, messageVars, handleVars>>
    /\ UNCHANGED <<mpc, stagedFiles, groups, titles, index, dirty, commits, exitCode>>

\* hasChangesToCommit when the diff command fails for another reason (the
\* catch makes no difference): it returns true with nothing staged.
CheckFails(i) ==
    /\ Running
    /\ task[i] = "check"
    /\ index = {}
    /\ trace' = Append(trace, Event("check", i, "error"))
    /\ task' = [task EXCEPT ![i] = NextStep("check")]
    /\ UNCHANGED <<groupingVars, titleVars, extractVars, categorizeVars, stagedVars, watchVars, messageVars, handleVars>>
    /\ UNCHANGED <<mpc, stagedFiles, groups, titles, index, dirty, commits, warnings,
                   exitCode>>

\* await executeGitCommand(["commit", "-m", title])
GitCommit(i) ==
    /\ Running
    /\ task[i] = "commit"
    /\ index # {}
    /\ commits' = Append(commits, [title |-> titles[i], paths |-> index, group |-> i])
    /\ dirty' = dirty \ index
    /\ index' = {}
    /\ trace' = Append(trace, Event("commit", i, "ok"))
    /\ task' = [task EXCEPT ![i] = NextStep("commit")]
    /\ UNCHANGED <<groupingVars, titleVars, extractVars, categorizeVars, stagedVars, watchVars, messageVars, handleVars>>
    /\ UNCHANGED <<mpc, stagedFiles, groups, titles, warnings, exitCode>>

\* git commit fails (a hook, no identity, nothing staged): the staging area
\* stays as the add left it.
GitCommitFails(i) ==
    /\ Running
    /\ task[i] = "commit"
    /\ trace' = Append(trace, Event("commit", i, "fail"))
    /\ task' = [task EXCEPT ![i] = "rejected"]
    /\ UNCHANGED <<groupingVars, titleVars, extractVars, categorizeVars, stagedVars, watchVars, messageVars, handleVars>>
    /\ UNCHANGED <<mpc, stagedFiles, groups, titles, index, dirty, commits, warnings,
                   exitCode>>

\* the awaited chain resolved: "All commits created!" and a normal return
MainAllDone ==
    /\ Running
    /\ \A i \in 1..Len(task) : task[i] = "resolved"
    /\ mpc' = "done"
    /\ exitCode' = 0
    /\ UNCHANGED <<groupingVars, titleVars, extractVars, categorizeVars, stagedVars, watchVars, messageVars, handleVars>>
    /\ UNCHANGED <<stagedFiles, groups, task, titles, index, dirty, commits, trace, warnings>>

\* catch (error) { handleError(error, {exitCode: 1}) }: the error is the
\* AppError thrown by rethrowError, so handleError ends the process.
MainCatch ==
    /\ Running
    /\ Len(task) > 0
    /\ task[Len(task)] = "rejected"
    /\ mpc' = "failed"
    /\ exitCode' = 1
    /\ UNCHANGED <<groupingVars, titleVars, extractVars, categorizeVars, stagedVars, watchVars, messageVars, handleVars>>
    /\ UNCHANGED <<stagedFiles, groups, task, titles, index, dirty, commits, trace, warnings>>

Next ==
    \/ MainNoStagedFiles
    \/ MainSingleFile
    \/ MainGroupFiles
    \/ \E i \in 1..Len(task) : AwaitPrev(i)
    \/ \E i \in 1..Len(task) : AwaitPrevRejected(i)
    \/ \E i \in 1..Len(task) : GenerateTitle(i)
    \/ \E i \in 1..Len(task) : GitReset(i)
    \/ \E i \in 1..Len(task) : GitResetFails(i)
    \/ \E i \in 1..Len(task) : GitAdd(i)
    \/ \E i \in 1..Len(task) : GitAddFails(i)
    \/ \E i \in 1..Len(task) : CheckHasChanges(i)
    \/ \E i \in 1..Len(task) : CheckNoChanges(i)
    \/ \E i \in 1..Len(task) : CheckFails(i)
    \/ \E i \in 1..Len(task) : GitCommit(i)
    \/ \E i \in 1..Len(task) : GitCommitFails(i)
    \/ MainAllDone
    \/ MainCatch

Spec == InitMain /\ [][Next]_vars


(***************************************************************************)
(* Properties of the commit orchestrator                                   *)
(***************************************************************************)
IsPrefix(s, t) == Len(s) <= Len(t) /\ \A k \in 1..Len(s) : s[k] = t[k]

EventsOf(i) == SelectSeq(trace, LAMBDA e : e.group = i)

TraceOps(i) == [k \in 1..Len(EventsOf(i)) |-> EventsOf(i)[k].op]

Happened(op, i, res) == \E k \in 1..Len(trace) : trace[k] = Event(op, i, res)

Skipped(i) == Happened("check", i, "empty")

Committed(i) == Happened("commit", i, "ok")

\* C5 as the specification states it: for every group the steps happen in the
\* order reset, add, check, title, commit, and a group skipped for an empty
\* diff has caused no title request.
C5_TitleAfterCheck ==
    \A i \in 1..Len(groups) :
        /\ IsPrefix(TraceOps(i), <<"reset", "add", "check", "title", "commit">>)
        /\ Skipped(i) => ~ \E k \in 1..Len(trace) : trace[k].group = i /\ trace[k].op = "title"

\* C5, amended: for every group the steps happen in the order title, reset,
\* add, check, commit; the title is requested before the staging area is
\* touched, so a group skipped for an empty diff has caused exactly one title
\* request and no commit.
C5_TitleBeforeReset ==
    \A i \in 1..Len(groups) :
        /\ IsPrefix(TraceOps(i), <<"title", "reset", "add", "check", "commit">>)
        /\ Skipped(i) => TraceOps(i) = <<"title", "reset", "add", "check">>

\* One group has been skipped after its title was requested, another has gone
\* through all five steps.
C5_Witness ==
    /\ \E i \in 1..Len(groups) : Skipped(i) /\ Happened("title", i, "ok")
    /\ \E j \in 1..Len(groups) :
          Committed(j) /\ TraceOps(j) = <<"title", "reset", "add", "check", "commit">>

\* C6: groups are processed one at a time in the order of the grouping: the
\* operations of two groups never interleave, and nothing is done for a group
\* before the commit or the skip of the group before it has resolved.
C6_GroupsOneAtATime ==
    /\ \A k \in 1..(Len(trace) - 1) : trace[k].group <= trace[k + 1].group
    /\ \A k \in 1..Len(trace) :
          trace[k].group > 1 =>
             \E j \in 1..(k - 1) :
                \/ trace[j] = Event("commit", trace[k].group - 1, "ok")
                \/ trace[j] = Event("check", trace[k].group - 1, "empty")
    /\ \A i \in 2..Len(task) :
          task[i] \notin {"awaitPrev", "rejected"} => task[i - 1] = "resolved"

\* Two groups have been committed and the reset of a third has happened.
C6_Witness ==
    /\ Len(groups) >= 3
    /\ Committed(1)
    /\ Committed(2)
    /\ Happened("reset", 3, "ok")

\* The group at which the run failed, and the operation that failed
FailedAt(K, op) ==
    /\ K \in 1..Len(task)
    /\ task[K] = "rejected"
    /\ Happened(op, K, "fail")

CommitsOfEarlierGroups(K) ==
    /\ \A c \in 1..Len(commits) : commits[c].group < K
    /\ \A i \in 1..(K - 1) : Committed(i) => \E c \in 1..Len(commits) : commits[c].group = i

NothingAfterFailure(K, op) ==
    /\ trace[Len(trace)] = Event(op, K, "fail")
    /\ \A k \in 1..Len(trace) : trace[k].group <= K

\* C7 as the specification states it: when the add or the commit of group K
\* fails, the commits of groups 1..K-1 remain, nothing is done for groups
\* K+1..N, and the files of groups K..N are neither staged nor committed.
C7_FailureLeavesNothingStaged ==
    \A K \in 1..Len(task) : \A op \in {"add", "commit"} :
        FailedAt(K, op) =>
            /\ CommitsOfEarlierGroups(K)
            /\ NothingAfterFailure(K, op)
            /\ \A j \in K..Len(groups) :
                  /\ PathsOf(groups[j]) \cap index = {}
                  /\ \A c \in 1..Len(commits) : PathsOf(groups[j]) \cap commits[c].paths = {}

\* C7, amended: when the add or the commit of group K fails, the failed
\* operation is the last one of the run (no retry, nothing for groups K+1..N),
\* the commits of the groups before K remain and are the only ones, the run
\* ends with exit code 1, and the staging area is left as it was: empty after
\* a failed add, holding the changes of group K after a failed commit.
C7_FailureLeavesGroupStaged ==
    \A K \in 1..Len(task) : \A op \in {"add", "commit"} :
        FailedAt(K, op) =>
            /\ CommitsOfEarlierGroups(K)
            /\ NothingAfterFailure(K, op)
            /\ op = "add" => index = {}
            /\ op = "commit" => index = PathsOf(groups[K]) \cap dirty
            /\ mpc \notin {"single", "grouped"} => mpc = "failed" /\ exitCode = 1

\* The commit of the second of three groups failed after the first group was
\* committed; the changes of the second group are still staged.
C7_Witness ==
    /\ Len(groups) >= 3
    /\ Committed(1)
    /\ FailedAt(2, "commit")
    /\ index # {}
    /\ task[3] = "rejected"
    /\ mpc = "failed"

\* C8: when the check after the reset and the add of a group finds the staged
\* diff empty, no commit is created for the group, a warning is logged, no
\* error is raised and the next group is processed.
C8_EmptyDiffSkipsGroup ==
    \A i \in 1..Len(groups) :
        Skipped(i) =>
            /\ ~ \E c \in 1..Len(commits) : commits[c].group = i
            /\ ~ Happened("commit", i, "ok") /\ ~ Happened("commit", i, "fail")
            /\ \E w \in 1..Len(warnings) : warnings[w] = Warning("nochanges", i)
            /\ task[i] = "resolved"
            /\ (i < Len(task) /\ task[i + 1] = "awaitPrev") => ENABLED AwaitPrev(i + 1)
            /\ (i = Len(task) /\ mpc # "grouped" /\ mpc # "single") => exitCode = 0

\* The first group was skipped for an empty diff and the second one was
\* committed after it.
C8_Witness ==
    /\ Len(groups) >= 2
    /\ Skipped(1)
    /\ Committed(2)
    /\ Len(commits) = 1

\* C20: with no staged file the run ends at once, with the message and exit
\* status 0, without a query of the model, a title request or a git command
\* that changes the index or the history; groupFilesByLLM on the empty list
\* returns no group without a query, whatever the model would have said.
C20_NoStagedFilesEndsAtOnce ==
    /\ (Len(stagedFiles) = 0 /\ mpc # "start") =>
          /\ mpc = "done"
          /\ exitCode = 0
          /\ trace = <<Event("log", 0, "noStagedFiles")>>
          /\ commits = <<>>
          /\ index = {}
          /\ groups = <<>>
          /\ warnings = <<>>
    /\ \A llm \in PipelineGroupingOutcomes :
          LET r == groupFilesByLLM(<<>>, llm)
          IN  r.groups = <<>> /\ r.via = "empty" /\ r.warned = 0 /\ ~r.rejected

\* A run without staged files that has ended.
C20_Witness ==
    /\ Len(stagedFiles) = 0
    /\ mpc = "done"
    /\ exitCode = 0
    /\ Len(trace) = 1
    /\ trace[1].op = "log"

\* The paths of the commits made before commit k.
CommittedBefore(k) == UNION {commits[j].paths : j \in 1..(k - 1)}

\* The paths that had staged changes when the run began: those that still
\* have changes and those committed since.
ChangedAtStart == dirty \cup UNION {commits[j].paths : j \in 1..Len(commits)}

\* C29: every commit holds changes of files of its own group only, whatever
\* was staged before: it holds exactly the files of the group that had
\* changes and were not committed by an earlier group.
C29_CommitHoldsItsGroupOnly ==
    \A k \in 1..Len(commits) :
        /\ commits[k].paths \subseteq PathsOf(groups[commits[k].group])
        /\ commits[k].paths =
              (PathsOf(groups[commits[k].group]) \cap ChangedAtStart) \ CommittedBefore(k)

\* Two files were staged at the start and two commits were made, each with
\* the one file of its group.
C29_Witness ==
    /\ Len(stagedFiles) = 2
    /\ Len(commits) = 2
    /\ commits[1].paths = PathsOf(groups[1])
    /\ commits[2].paths = PathsOf(groups[2])
    /\ commits[1].paths # commits[2].paths
    /\ Cardinality(commits[1].paths) = 1

MaxStatusLines == 3

\* The lines git may print: modified, added, deleted, a rename (three
\* fields), a line without a tab and a blank line.
StatusLineTexts ==
    { <<"M", "\t">> \o P_a,
      <<"A", "\t">> \o P_md,
      <<"D", "\t">> \o P_x,
      <<"R", "\t">> \o P_c \o <<"\t">> \o P_zz,
      <<"M">>,
      <<" ">> }

RECURSIVE JoinLines(_)
JoinLines(ls) ==
    IF Len(ls) = 0 THEN <<>> ELSE ls[1] \o <<"\n">> \o JoinLines(Tail(ls))

StatusOutcomes ==
    {[threw |-> TRUE, text |-> <<>>]}
        \cup {[threw |-> FALSE, text |-> JoinLines(ls)] :
                ls \in {s \in SeqsUpTo(StatusLineTexts, MaxStatusLines) : IsInjective(s)}}

\* The grouping query throws, answers with one group of two files, or
\* answers with a flat array of paths.
StagedGroupingOutcomes ==
    { LlmThrew,
      LlmSaid(<<ResultMsg(TextJson(JArr(<<JArr(<<JStr(P_x), JStr(P_a)>>)>>)))>>),
      LlmSaid(<<ResultMsg(TextJson(JArr(<<JStr(P_a)>>)))>>) }

(***************************************************************************)
(* getGitStagedFiles of shared/git-operations.ts, followed by the grouping *)
(* step of main                                                            *)
(***************************************************************************)
RECURSIVE SplitTabs(_)
SplitTabs(s) ==
    LET idx == {i \in 1..Len(s) : s[i] = "\t"}
    IN  IF idx = {} THEN <<s>>
        ELSE LET i == CHOOSE k \in idx : \A j \in idx : k <= j
             IN  <<SubSeq(s, 1, i - 1)>> \o SplitTabs(SubSeq(s, i + 1, Len(s)))

\* statusOutput.split("\n").filter((l) => l.trim())
StatusLines(text) == SelectSeq(SplitLines(text), LAMBDA l : Trim(l) # <<>>)

\* A promise of filePromises: pending, or settled with null or with a file.
PendingFile == [state |-> "pending", path |-> <<>>, status |-> <<>>, diff |-> <<>>]

NullFile == [state |-> "null", path |-> <<>>, status |-> <<>>, diff |-> <<>>]

FileWithDiff(parts, diff) ==
    [state |-> "file", path |-> parts[2], status |-> parts[1], diff |-> diff]

\* The text a successful git show or git diff --cached printed.
DiffText == <<"+", "1">>

\* The GitFileChange of a settled promise.
GitFileChange(r) == [path |-> r.path, status |-> r.status, diff |-> r.diff]

\* await executeGitCommand(["diff", "--cached", "--name-status"]), the split
\* into lines, the early return, and statusLines.map(async ...): every
\* callback runs up to its first await, so a line of fewer than two fields
\* settles with null and every other fetch is started before any completes.
ReadStatusLines ==
    /\ spc = "start"
    /\ ~sOutput.threw
    /\ LET statusLines == StatusLines(sOutput.text)
       IN  IF Len(statusLines) = 0
              THEN /\ spc' = "done"
                   /\ sLines' = <<>>
                   /\ sResults' = <<>>
              ELSE /\ spc' = "fetching"
                   /\ sLines' = [i \in 1..Len(statusLines) |-> SplitTabs(statusLines[i])]
                   /\ sResults' = [i \in 1..Len(statusLines) |->
                                      IF Len(SplitTabs(statusLines[i])) < 2
                                         THEN NullFile
                                         ELSE PendingFile]
    /\ UNCHANGED <<sOutput, sOrder, sFailed, sOut, sLlm, sGroups>>
    /\ UNCHANGED <<groupingVars, titleVars, mainVars, extractVars, categorizeVars, watchVars, messageVars, handleVars>>

\* the status listing throws: rethrowError(error, "Failed to get staged files")
StatusListingFails ==
    /\ spc = "start"
    /\ sOutput.threw
    /\ spc' = "failed"
    /\ UNCHANGED <<sOutput, sLines, sResults, sOrder, sFailed, sOut, sLlm, sGroups>>
    /\ UNCHANGED <<groupingVars, titleVars, mainVars, extractVars, categorizeVars, watchVars, messageVars, handleVars>>

\* return { path, status, diff }
FetchResolves(i) ==
    /\ spc = "fetching"
    /\ sResults[i].state = "pending"
    /\ sResults' = [sResults EXCEPT
                      ![i] = FileWithDiff(sLines[i], DiffText)]
    /\ sOrder' = Append(sOrder, i)
    /\ UNCHANGED <<spc, sOutput, sLines, sFailed, sOut, sLlm, sGroups>>
    /\ UNCHANGED <<groupingVars, titleVars, mainVars, extractVars, categorizeVars, watchVars, messageVars, handleVars>>

\* the diff fetch of line i throws and the error leaves the callback
FetchRejects_Aborts(i) ==
    /\ spc = "fetching"
    /\ sResults[i].state = "pending"
    /\ spc' = "failed"
    /\ sFailed' = sFailed \cup {i}
    /\ sOrder' = Append(sOrder, i)
    /\ UNCHANGED <<sOutput, sLines, sResults, sOut, sLlm, sGroups>>
    /\ UNCHANGED <<groupingVars, titleVars, mainVars, extractVars, categorizeVars, watchVars, messageVars, handleVars>>

\* catch (error) { warn(...); return { path, status, diff: "" } }
FetchRejects(i) ==
    /\ spc = "fetching"
    /\ sResults[i].state = "pending"
    /\ sResults' = [sResults EXCEPT
                      ![i] = FileWithDiff(sLines[i], <<>>)]
    /\ sFailed' = sFailed \cup {i}
    /\ sOrder' = Append(sOrder, i)
    /\ UNCHANGED <<spc, sOutput, sLines, sOut, sLlm, sGroups>>
    /\ UNCHANGED <<groupingVars, titleVars, mainVars, extractVars, categorizeVars, watchVars, messageVars, handleVars>>

\* results.filter((file) => file !== null), taken in completion order
AwaitAll_CompletionOrder ==
    /\ spc = "fetching"
    /\ \A i \in 1..Len(sResults) : sResults[i].state # "pending"
    /\ sOut' = [k \in 1..Len(sOrder) |-> GitFileChange(sResults[sOrder[k]])]
    /\ spc' = "done"
    /\ UNCHANGED <<sOutput, sLines, sResults, sOrder, sFailed, sLlm, sGroups>>
    /\ UNCHANGED <<groupingVars, titleVars, mainVars, extractVars, categorizeVars, watchVars, messageVars, handleVars>>

\* results = await Promise.all(filePromises); return results.filter(...)
AwaitAll ==
    /\ spc = "fetching"
    /\ \A i \in 1..Len(sResults) : sResults[i].state # "pending"
    /\ sOut' = [k \in 1..Len(SelectSeq(sResults, LAMBDA r : r.state = "file")) |->
                  GitFileChange(SelectSeq(sResults, LAMBDA r : r.state = "file")[k])]
    /\ spc' = "done"
    /\ UNCHANGED <<sOutput, sLines, sResults, sOrder, sFailed, sLlm, sGroups>>
    /\ UNCHANGED <<groupingVars, titleVars, mainVars, extractVars, categorizeVars, watchVars, messageVars, handleVars>>

\* main: one file is its own group, more files go to groupFilesByLLM
GroupStagedFiles ==
    /\ spc = "done"
    /\ Len(sOut) > 0
    /\ \E llm \in StagedGroupingOutcomes :
          /\ sLlm' = llm
          /\ sGroups' = IF Len(sOut) = 1 THEN <<sOut>>
                                         ELSE groupFilesByLLM(sOut, llm).groups
    /\ spc' = "grouped"
    /\ UNCHANGED <<sOutput, sLines, sResults, sOrder, sFailed, sOut>>
    /\ UNCHANGED <<groupingVars, titleVars, mainVars, extractVars, categorizeVars, watchVars, messageVars, handleVars>>

InitStaged ==
    /\ spc = "start"
    /\ sOutput \in StatusOutcomes
    /\ sLines = <<>>
    /\ sResults = <<>>
    /\ sOrder = <<>>
    /\ sFailed = {}
    /\ sOut = <<>>
    /\ sLlm = NoLlm
    /\ sGroups = <<>>
    /\ GroupingIdle
    /\ TitleIdle
    /\ MainIdle
    /\ ExtractIdle
    /\ CategorizeIdle
    /\ WatchIdle
    /\ MessageIdle
    /\ HandleIdle

NextStaged ==
    \/ ReadStatusLines
    \/ StatusListingFails
    \/ \E i \in 1..Len(sResults) : FetchResolves(i)
    \/ \E i \in 1..Len(sResults) : FetchRejects(i)
    \/ AwaitAll
    \/ GroupStagedFiles

SpecStaged == InitStaged /\ [][NextStaged]_vars


(***************************************************************************)
(* Properties of getGitStagedFiles                                         *)
(***************************************************************************)
\* The fields of every status line of the text, and the lines (by number)
\* that have at least two fields.
LineFields(text) ==
    LET ls == StatusLines(text)
    IN  [i \in 1..Len(ls) |-> SplitTabs(ls[i])]

FileLineNumbers(fields) ==
    SelectSeq([i \in 1..Len(fields) |-> i], LAMBDA i : Len(fields[i]) >= 2)

\* The paths of the groups, group by group.
GroupPaths(gs) == [g \in 1..Len(gs) |-> [k \in 1..Len(gs[g]) |-> gs[g][k].path]]

\* The list with every diff retrieved.
AllDiffsRead(fs) == [k \in 1..Len(fs) |-> [fs[k] EXCEPT !.diff = DiffText]]

C22_StatusLineOrder ==
    /\ spc = "fetching" =>
          \A i \in 1..Len(sResults) :
              sResults[i].state = "pending" <=> Len(sLines[i]) >= 2 /\ i \notin Range(sOrder)
    /\ spc \in {"done", "grouped"} =>
          LET fields == LineFields(sOutput.text)
              lines == FileLineNumbers(fields)
          IN  [k \in 1..Len(sOut) |-> <<sOut[k].status, sOut[k].path>>] =
                  [k \in 1..Len(lines) |-> <<fields[lines[k]][1], fields[lines[k]][2]>>]

\* All fetches were pending at once, the fetch of a later line completed
\* first, and a line of one field was left out.
C22_Witness ==
    /\ spc = "done"
    /\ Len(sOrder) >= 2
    /\ sOrder[1] > sOrder[2]
    /\ Len(sOut) = 2
    /\ Len(StatusLines(sOutput.text)) = 3
    /\ sOut[1].path = P_x
    /\ sOut[2].path = P_a


(***************************************************************************)
(* The file-watching auto-committer of packages/ccgit: watchFileChanges    *)
(* with commitIfChanged, run by runClaudeWithMonitoring                    *)
(***************************************************************************)
MaxEvents == 3

MaxTicks == 12

DEBOUNCE_DELAY == 500

MIN_COMMIT_INTERVAL == 400

\* The clock advances in steps that tell the two delays apart.
TimeStep == DEBOUNCE_DELAY - MIN_COMMIT_INTERVAL

\* lastCommitTime starts at 0 and Date.now() is far beyond the minimum
\* interval: the clock starts at the first reading that is.
StartTime == MIN_COMMIT_INTERVAL + TimeStep

EndTime == StartTime + MaxTicks * TimeStep

EventKinds == {"modify", "create", "remove", "access"}

Logged(op) == [op |-> op, at |-> now]

CountOf(op) == Cardinality({k \in 1..Len(wLog) : wLog[k].op = op})

TimerDue == IF Len(timers) > 0 THEN Head(timers) <= now ELSE FALSE

\* options.changeBuffer && Date.now() - options.lastCommitTime > MIN_COMMIT_INTERVAL
TriggerPasses == changeBuffer /\ now - lastCommitTime > MIN_COMMIT_INTERVAL

\* createFileWatcher, and runClaudeWithMonitoring starting watchFileChanges
InitWatch ==
    /\ wpc = "watching"
    /\ now = StartTime
    /\ timers = <<>>
    /\ watcherActive = TRUE
    /\ commitInProgress = FALSE
    /\ lastCommitTime = 0
    /\ changeBuffer = FALSE
    /\ inFlight = 0
    /\ wLog = <<>>
    /\ GroupingIdle
    /\ TitleIdle
    /\ MainIdle
    /\ ExtractIdle
    /\ CategorizeIdle
    /\ StagedIdle
    /\ MessageIdle
    /\ HandleIdle

\* for await (const event of watcher): a modify, create or remove event sets
\* changeBuffer and arms a timer of its own; no timer is ever cleared.
ChangeEvent(kind) ==
    /\ wpc = "watching"
    /\ CountOf("event") + CountOf("ignored") < MaxEvents
    /\ now + DEBOUNCE_DELAY <= EndTime
    /\ IF kind \in {"modify", "create", "remove"}
          THEN /\ changeBuffer' = TRUE
               /\ timers' = Append(timers, now + DEBOUNCE_DELAY)
               /\ wLog' = Append(wLog, Logged("event"))
          ELSE /\ wLog' = Append(wLog, Logged("ignored"))
               /\ UNCHANGED <<changeBuffer, timers>>
    /\ UNCHANGED <<wpc, now, watcherActive, commitInProgress, lastCommitTime, inFlight>>
    /\ UNCHANGED <<groupingVars, titleVars, mainVars, extractVars, categorizeVars, stagedVars, messageVars, handleVars>>

\* the timer callback when its condition is false: nothing happens
TimerSkips ==
    /\ wpc = "watching"
    /\ TimerDue
    /\ ~TriggerPasses
    /\ timers' = Tail(timers)
    /\ wLog' = Append(wLog, Logged("skip"))
    /\ UNCHANGED <<wpc, now, watcherActive, commitInProgress, lastCommitTime,
                   changeBuffer, inFlight>>
    /\ UNCHANGED <<groupingVars, titleVars, mainVars, extractVars, categorizeVars, stagedVars, messageVars, handleVars>>

\* the timer callback starting a second commit next to the one in flight
TimerDropped_StartsCommit ==
    /\ wpc = "watching"
    /\ TimerDue
    /\ TriggerPasses
    /\ commitInProgress
    /\ timers' = Tail(timers)
    /\ changeBuffer' = FALSE
    /\ inFlight' = inFlight + 1
    /\ wLog' = Append(wLog, Logged("attempt"))
    /\ UNCHANGED <<wpc, now, watcherActive, commitInProgress, lastCommitTime>>
    /\ UNCHANGED <<groupingVars, titleVars, mainVars, extractVars, categorizeVars, stagedVars, messageVars, handleVars>>

\* the timer callback when a commit is in flight: changeBuffer is reset and
\* commitIfChanged returns at once
TimerDropped ==
    /\ wpc = "watching"
    /\ TimerDue
    /\ TriggerPasses
    /\ commitInProgress
    /\ timers' = Tail(timers)
    /\ changeBuffer' = FALSE
    /\ wLog' = Append(wLog, Logged("drop"))
    /\ UNCHANGED <<wpc, now, watcherActive, commitInProgress, lastCommitTime, inFlight>>
    /\ UNCHANGED <<groupingVars, titleVars, mainVars, extractVars, categorizeVars, stagedVars, messageVars, handleVars>>

\* the timer callback when no commit is in flight: changeBuffer is reset,
\* commitInProgress is set and commitFileChanges is called
TimerCommits ==
    /\ wpc = "watching"
    /\ TimerDue
    /\ TriggerPasses
    /\ ~commitInProgress
    /\ timers' = Tail(timers)
    /\ changeBuffer' = FALSE
    /\ commitInProgress' = TRUE
    /\ inFlight' = inFlight + 1
    /\ wLog' = Append(wLog, Logged("attempt"))
    /\ UNCHANGED <<wpc, now, watcherActive, lastCommitTime>>
    /\ UNCHANGED <<groupingVars, titleVars, mainVars, extractVars, categorizeVars, stagedVars, messageVars, handleVars>>

\* commitFileChanges returns: lastCommitTime = Date.now(), and the finally
\* block resets commitInProgress
CommitEnds ==
    /\ wpc = "watching"
    /\ inFlight > 0
    /\ lastCommitTime' = now
    /\ commitInProgress' = FALSE
    /\ inFlight' = inFlight - 1
    /\ wLog' = Append(wLog, Logged("end"))
    /\ UNCHANGED <<wpc, now, timers, watcherActive, changeBuffer>>
    /\ UNCHANGED <<groupingVars, titleVars, mainVars, extractVars, categorizeVars, stagedVars, messageVars, handleVars>>

\* commitFileChanges throws: the finally block resets commitInProgress and
\* the rejection of the timer callback, which nothing handles, ends the
\* process
CommitThrows ==
    /\ wpc = "watching"
    /\ inFlight > 0
    /\ commitInProgress' = FALSE
    /\ inFlight' = inFlight - 1
    /\ wLog' = Append(wLog, Logged("error"))
    /\ wpc' = "exited"
    /\ UNCHANGED <<now, timers, watcherActive, lastCommitTime, changeBuffer>>
    /\ UNCHANGED <<groupingVars, titleVars, mainVars, extractVars, categorizeVars, stagedVars, messageVars, handleVars>>

\* time passes while no timer is due
Tick ==
    /\ wpc = "watching"
    /\ ~TimerDue
    /\ now < EndTime
    /\ now' = now + TimeStep
    /\ UNCHANGED <<wpc, timers, watcherActive, commitInProgress, lastCommitTime,
                   changeBuffer, inFlight, wLog>>
    /\ UNCHANGED <<groupingVars, titleVars, mainVars, extractVars, categorizeVars, stagedVars, messageVars, handleVars>>

\* the wrapped process ends: runClaudeWithMonitoring clears watcherActive and
\* handleClaudeSession calls Deno.exit in the same turn, so that no timer
\* fires and no commit in flight goes on.
ClaudeExits ==
    /\ wpc = "watching"
    /\ watcherActive' = FALSE
    /\ wpc' = "exited"
    /\ UNCHANGED <<now, timers, commitInProgress, lastCommitTime, changeBuffer,
                   inFlight, wLog>>
    /\ UNCHANGED <<groupingVars, titleVars, mainVars, extractVars, categorizeVars, stagedVars, messageVars, handleVars>>

NextWatch ==
    \/ \E kind \in EventKinds : ChangeEvent(kind)
    \/ TimerSkips
    \/ TimerDropped
    \/ TimerCommits
    \/ CommitEnds
    \/ CommitThrows
    \/ Tick
    \/ ClaudeExits

SpecWatch == InitWatch /\ [][NextWatch]_vars

\* The event loop runs every timer that is due, git commands return and
\* time goes on; nothing makes the wrapped process end or files change.
SpecWatchFair ==
    /\ SpecWatch
    /\ WF_vars(TimerSkips)
    /\ WF_vars(TimerDropped)
    /\ WF_vars(TimerCommits)
    /\ WF_vars(CommitEnds)
    /\ WF_vars(Tick)


(***************************************************************************)
(* Properties of the auto-committer                                        *)
(***************************************************************************)
LogIndexes(op) == {k \in 1..Len(wLog) : wLog[k].op = op}

\* C23: at most one commit is in flight, and a trigger that fires while a
\* commit is in flight is dropped for good: it starts no commit then, and
\* every trigger is answered exactly once (by an attempt, a drop or a skip),
\* so that none is kept to run after the commit in flight has ended.
C23_OneCommitInFlight ==
    /\ inFlight <= 1
    /\ commitInProgress <=> inFlight = 1
    /\ CountOf("attempt") + CountOf("drop") + CountOf("skip") + Len(timers)
          = CountOf("event")
    /\ CountOf("attempt") = CountOf("end") + CountOf("error") + inFlight
    /\ \A k \in LogIndexes("drop") :
          Cardinality({j \in LogIndexes("attempt") : j < k})
              = Cardinality({j \in LogIndexes("end") : j < k}) + 1

\* A trigger was dropped while a commit was in flight, and the commit has
\* ended since without another attempt.
C23_Witness ==
    /\ \E k \in LogIndexes("drop") :
          /\ \E j \in LogIndexes("end") : j > k
          /\ ~ \E j \in LogIndexes("attempt") : j > k
    /\ inFlight = 0
    /\ timers = <<>>

\* The latest entry of kind op before entry k of the log (0 when none).
LatestBefore(op, k) ==
    LET I == {j \in LogIndexes(op) : j < k}
    IN  IF I = {} THEN 0 ELSE CHOOSE j \in I : \A i \in I : i <= j

\* C24: a commit attempt starts only when the debounce delay has passed since
\* the most recent change event, no commit is in flight, and more than the
\* minimum interval has passed since the last commit ended: a burst of events
\* gives no attempt while the delay of a later event is still running.
C24_AttemptAfterQuietPeriod ==
    \A k \in LogIndexes("attempt") :
        /\ LatestBefore("event", k) > 0
        /\ wLog[k].at - wLog[LatestBefore("event", k)].at >= DEBOUNCE_DELAY
        /\ Cardinality({j \in LogIndexes("attempt") : j < k})
              = Cardinality({j \in LogIndexes("end") : j < k})
        /\ LatestBefore("end", k) > 0 =>
              wLog[k].at - wLog[LatestBefore("end", k)].at > MIN_COMMIT_INTERVAL

\* C25: a change event sets changeBuffer at once, changeBuffer is false when
\* a commit attempt starts, and once every timer has fired (the debounce
\* period after the last event is over) changeBuffer is false.
C25_BufferClearedAfterDebounce ==
    /\ Len(wLog) > 0 =>
          /\ wLog[Len(wLog)].op = "event" => changeBuffer
          /\ wLog[Len(wLog)].op = "attempt" => ~changeBuffer
    /\ (CountOf("event") > 0 /\ timers = <<>>) => ~changeBuffer

\* A change event that no commit attempt has followed.
Uncommitted ==
    \E k \in LogIndexes("event") : ~ \E j \in LogIndexes("attempt") : j > k

\* C30: every change event is eventually followed by a commit attempt that
\* starts after it.
C30_EveryChangeCommitted == Uncommitted ~> ~Uncommitted


(***************************************************************************)
(* commitChanges of shared/git-operations.ts (and of packages/ccgit/git.ts)*)
(***************************************************************************)
K_SessionID == <<"S", "e", "s", "s", "i", "o", "n", "-", "I", "D", ":", " ">>

K_Prompt == <<"P", "r", "o", "m", "p", "t", ":", " ">>

K_Time == <<"T", "i", "m", "e", ":", " ">>

K_ResumedFrom == <<"R", "e", "s", "u", "m", "e", "d", "-", "F", "r", "o", "m", ":", " ">>

Quote == <<"\"">>

\* An optional string in a condition: undefined and "" are falsy.
HasText(opt) == opt.present /\ Len(opt.val) > 0

\* [title, "", `Session-ID: ...`, prompt ? ... : "", `Time: ...`,
\*  resumedFrom ? ... : ""].filter(Boolean).join("\n")
BuildMessage(title, metadata) ==
    LET parts ==
            << title,
               <<>>,
               K_SessionID \o metadata.sessionId,
               IF HasText(metadata.prompt)
                  THEN K_Prompt \o Quote \o metadata.prompt.val \o Quote
                  ELSE <<>>,
               K_Time \o metadata.timestamp,
               IF HasText(metadata.resumedFrom)
                  THEN K_ResumedFrom \o metadata.resumedFrom.val
                  ELSE <<>> >>
        kept == SelectSeq(parts, LAMBDA part : Len(part) > 0)
    IN  IF Len(kept) = 0 THEN <<>>
        ELSE LET joined == JoinLines(kept)
             IN  SubSeq(joined, 1, Len(joined) - 1)

MessageTitles == {<<"f", "e", "a", "t", ":", " ", "x">>, <<>>}

OptionalTexts(str) == {Absent, Given(<<>>), Given(str)}

MessageMetadata ==
    [sessionId : {<<"s", "1">>, <<>>},
     prompt : OptionalTexts(<<"f", "i", "x">>),
     timestamp : {<<"t", "1">>, <<>>},
     resumedFrom : OptionalTexts(<<"r", "0">>)]

InitMessage ==
    /\ kpc = "start"
    /\ kTitle \in MessageTitles
    /\ kMeta \in MessageMetadata
    /\ kChanges \in BOOLEAN
    /\ kMessage = <<>>
    /\ GroupingIdle
    /\ TitleIdle
    /\ MainIdle
    /\ ExtractIdle
    /\ CategorizeIdle
    /\ StagedIdle
    /\ WatchIdle
    /\ HandleIdle

\* git add -A, then git diff --cached --quiet succeeds: nothing is staged
\* and commitChanges returns without a commit
CommitNothingStaged ==
    /\ kpc = "start"
    /\ ~kChanges
    /\ kpc' = "skipped"
    /\ UNCHANGED <<kTitle, kMeta, kChanges, kMessage>>
    /\ UNCHANGED <<groupingVars, titleVars, mainVars, extractVars, categorizeVars,
                   stagedVars, watchVars, handleVars>>

\* the message is built and handed to git commit -m
CommitWithMessage ==
    /\ kpc = "start"
    /\ kChanges
    /\ kMessage' = BuildMessage(kTitle, kMeta)
    /\ kpc' = "committed"
    /\ UNCHANGED <<kTitle, kMeta, kChanges>>
    /\ UNCHANGED <<groupingVars, titleVars, mainVars, extractVars, categorizeVars,
                   stagedVars, watchVars, handleVars>>

\* git add -A or git commit fails: rethrowError(error, "Failed to commit changes")
CommitChangesFails ==
    /\ kpc = "start"
    /\ kpc' = "failed"
    /\ UNCHANGED <<kTitle, kMeta, kChanges, kMessage>>
    /\ UNCHANGED <<groupingVars, titleVars, mainVars, extractVars, categorizeVars,
                   stagedVars, watchVars, handleVars>>

NextMessage ==
    \/ CommitNothingStaged
    \/ CommitWithMessage
    \/ CommitChangesFails

SpecMessage == InitMessage /\ [][NextMessage]_vars


(***************************************************************************)
(* Properties of the session commit message                                *)
(***************************************************************************)
\* C26: the message of a session commit is the title line, one blank line,
\* and the trailer lines Session-ID, Prompt (when there is one), Time and
\* Resumed-From (when there is one), in this order.
C26_TitleBlankLineTrailers ==
    (/\ kpc = "committed"
     /\ Len(kTitle) > 0
     /\ Len(kMeta.sessionId) > 0
     /\ Len(kMeta.timestamp) > 0) =>
        SplitLines(kMessage) =
            <<kTitle, <<>>, K_SessionID \o kMeta.sessionId>>
                \o (IF HasText(kMeta.prompt)
                       THEN <<K_Prompt \o Quote \o kMeta.prompt.val \o Quote>>
                       ELSE <<>>)
                \o <<K_Time \o kMeta.timestamp>>
                \o (IF HasText(kMeta.resumedFrom)
                       THEN <<K_ResumedFrom \o kMeta.resumedFrom.val>>
                       ELSE <<>>)

\* C27: no line of the message is a trailer key with an empty value.
C27_NoBlankTrailer ==
    (kpc = "committed" /\ Len(kTitle) > 0) =>
        \A k \in 1..Len(SplitLines(kMessage)) :
            SplitLines(kMessage)[k] \notin
                {K_SessionID, K_Prompt, K_Prompt \o Quote \o Quote, K_Time, K_ResumedFrom}


(***************************************************************************)
(* handleError of shared/error-handler.ts, called from main's catch block  *)
(***************************************************************************)
\* handleError: the message by the kind of the value, the line printed, and
\* whether Deno.exit(exitCode) is called.
handleError(error, options) ==
    LET message ==
            IF error.kind = "AppError" THEN error.message
            ELSE IF error.kind = "Error"
                    THEN IF options.verbose
                            THEN error.message \o <<"\n">> \o error.stack
                            ELSE error.message
            ELSE error.message
        shouldExit == error.kind = "AppError"
    IN  [printed |-> IF options.logError
                        THEN options.prefix \o <<":", " ">> \o message
                        ELSE <<>>,
         exits |-> shouldExit,
         exitCode |-> IF shouldExit THEN options.exitCode ELSE -1]

\* handleError(error, { prefix: "... Error", exitCode: 1 }) of main
MainOptions == [DefaultOptions EXCEPT !.exitCode = 1]

\* What the try block may throw: an AppError (rethrowError), another Error,
\* or a value that is no Error (its String() is the message).
Thrown(kind, message) == [kind |-> kind, message |-> message, stack |-> <<"a", "t", " ", "m", "a", "i", "n">>]

ErrorMessages == {<<"b", "o", "o", "m">>, <<"F", "a", "i", "l", "e", "d", " ", "t", "o", " ", "c", "r", "e", "a", "t", "e", " ", "c", "o", "m", "m", "i", "t", ":", " ", "b", "o", "o", "m">>, <<"F", "a", "i", "l", "e", "d", " ", "t", "o", " ", "g", "e", "t", " ", "s", "t", "a", "g", "e", "d", " ", "f", "i", "l", "e", "s", ":", " ", "b", "o", "o", "m">>}

ErrorValues == {Thrown(kind, m) : kind \in {"AppError", "Error", "other"}, m \in ErrorMessages}

HandlerOptions ==
    {[DefaultOptions EXCEPT !.verbose = v, !.logError = l, !.exitCode = c] :
        v \in BOOLEAN, l \in BOOLEAN, c \in {1, 2}}

InitHandle ==
    /\ hpc = "start"
    /\ hError \in ErrorValues
    /\ hOptions \in HandlerOptions
    /\ hPrinted = <<>>
    /\ hExit = -1
    /\ GroupingIdle
    /\ TitleIdle
    /\ MainIdle
    /\ ExtractIdle
    /\ CategorizeIdle
    /\ StagedIdle
    /\ WatchIdle
    /\ MessageIdle

\* catch (error) { handleError(error, ...) } when handleError calls Deno.exit
CatchExits ==
    /\ hpc = "start"
    /\ handleError(hError, hOptions).exits
    /\ hPrinted' = handleError(hError, hOptions).printed
    /\ hExit' = handleError(hError, hOptions).exitCode
    /\ hpc' = "ended"
    /\ UNCHANGED <<hError, hOptions>>
    /\ UNCHANGED <<groupingVars, titleVars, mainVars, extractVars, categorizeVars,
                   stagedVars, watchVars, messageVars>>

\* catch (error) { handleError(error, ...) } when handleError returns
CatchReturns ==
    /\ hpc = "start"
    /\ ~handleError(hError, hOptions).exits
    /\ hPrinted' = handleError(hError, hOptions).printed
    /\ hpc' = "handled"
    /\ UNCHANGED <<hError, hOptions, hExit>>
    /\ UNCHANGED <<groupingVars, titleVars, mainVars, extractVars, categorizeVars,
                   stagedVars, watchVars, messageVars>>

\* main() resolves after its catch block and the process ends normally
MainResolves ==
    /\ hpc = "handled"
    /\ hExit' = 0
    /\ hpc' = "ended"
    /\ UNCHANGED <<hError, hOptions, hPrinted>>
    /\ UNCHANGED <<groupingVars, titleVars, mainVars, extractVars, categorizeVars,
                   stagedVars, watchVars, messageVars>>

NextHandle ==
    \/ CatchExits
    \/ CatchReturns
    \/ MainResolves

SpecHandle == InitHandle /\ [][NextHandle]_vars


(***************************************************************************)
(* Properties of the top-level error handler                               *)
(***************************************************************************)
\* C28: whatever the kind of the value that reaches main's catch block, one
\* line is printed and the process ends with exit code 1.
C28_ErrorExitsWithOne ==
    (hpc = "ended" /\ hOptions = MainOptions) =>
        /\ Len(hPrinted) > 0
        /\ Len(SplitLines(hPrinted)) = 1
        /\ hExit = 1

====
